---- MODULE Spec2Model ----
(***************************************************************************)
(* Replicated Data types of the JavaScript SDK (ReplicatedSet,             *)
(* ReplicatedMap, ReplicatedCounterMap, ReplicatedMultiMap) and the        *)
(* per-entity command loop of the host, as state machines.                 *)
(*                                                                         *)
(* A JavaScript Map keyed by comparables is a TLA+ set (membership only)   *)
(* or a function whose domain is the key set.  The arrays of a delta are   *)
(* sequences; an array built from a Map lists its entries in one fixed     *)
(* order.  A oneof envelope {tag: body} is the record                      *)
(* [kind |-> tag, body |-> body].                                          *)
(***************************************************************************)
EXTENDS Integers, Sequences, FiniteSets, TLC

\* ---- bounds -------------------------------------------------------------
MaxElem == 2      \* elements of sets and values of multi-maps are 1..MaxElem
MaxKey == 1       \* keys of the three map types are 1..MaxKey
MaxCount == 2     \* counter values stay within 0..MaxCount
MaxPending == 1   \* the unflushed change of a counter stays within +-MaxPending
MaxOps == 3       \* local calls made on the two replicas together
MaxEntities == 2  \* entity ids with commands on the host's streams
MaxCommands == 3  \* commands that arrive for one entity id
MaxQueue == 2     \* capacity of an entity's inbound queue
MaxDeltaLen == 1  \* removed, added and updated entries of an inbound delta
MaxActions == 3   \* actions of one request of the TCK model
MaxEvents == 3    \* events in the log of a mocked entity
MaxEmits == 2     \* actions of one request of the event sourced TCK model
MaxCalls == 3     \* calls one command handler makes on its context
MaxStreams == 2   \* streamed monitor commands open at a time
MaxVoters == 2    \* nodes voting in one Vote
MaxUsers == 2     \* connections of the user to this node
MaxInvoked == 3   \* state changes one stream is followed through
MaxOutside == 2   \* status codes tried below 0 and above the last gRPC code
MaxComponents == 3  \* components added to one service
MaxShutdowns == 2
MaxInflight == 2
MaxAddress == 2
MaxEffects == 2   \* side effects one serializer's context collects
MaxSequence == 6  \* highest sequence number an entity reaches
MaxInitSequence == 2  \* highest sequence number of an init frame
\* the snapshotEvery option of the event sourced TCK model
SnapshotEvery == 5

Elems == 1..MaxElem
Keys == 1..MaxKey
\* the amounts user code increments and decrements counters by
Incs == {-1, 0, 1}

\* the JavaScript null / undefined result
Null == [kind |-> "null"]

\* ---- helpers ------------------------------------------------------------
RECURSIVE SetToSeq(_)
\* Array.from(map.values()): the entries of a Map as an array
SetToSeq(S) ==
  IF S = {} THEN <<>>
  ELSE LET x == CHOOSE y \in S : TRUE IN <<x>> \o SetToSeq(S \ {x})

Range(s) == {s[i] : i \in 1..Len(s)}

\* the function f without key k / with key k bound to v
Without(f, k) == [x \in (DOMAIN f) \ {k} |-> f[x]]
With(f, k, v) == [x \in (DOMAIN f) \cup {k} |-> IF x = k THEN v ELSE f[x]]
EmptyMap == [x \in {} |-> 0]

\* ---- Any support ---------------------------------------------------------
\* AnySupport.serialize(value, true, true) of a primitive: a tagged blob
Serialize(v) == [type_url |-> "type.kalix.io/double", value |-> v]
\* anySupport.deserialize(any)
Deserialize(any) == any.value
\* AnySupport.toComparable(value): a primitive is its own comparable
ToComparable(v) == v

SerializeAll(S) == [i \in 1..Len(SetToSeq(S)) |-> Serialize(SetToSeq(S)[i])]

\* ---- results -------------------------------------------------------------
\* the outcome of a call that can throw: the object's state when the call
\* ended and the error thrown ("" when it returned)
Ok(s) == [state |-> s, error |-> ""]
Thrown(s, msg) == [state |-> s, error |-> msg]
\* the outcome of getAndResetDelta: the returned delta and the object's state
Flushed(d, s) == [delta |-> d, state |-> s]

\* ---- ReplicatedCounter ---------------------------------------------------
NewCounter == [kind |-> "counter", value |-> 0, delta |-> 0]

CounterIncrement(c, n) == [c EXCEPT !.value = @ + n, !.delta = @ + n]

CounterGetAndResetDelta(c, initial) ==
  IF c.delta # 0 \/ initial
  THEN Flushed([kind |-> "counter", body |-> [change |-> c.delta]],
               [c EXCEPT !.delta = 0])
  ELSE Flushed(Null, c)

CounterApplyDelta(c, d) ==
  IF d.kind # "counter"
  THEN Thrown(c, "Cannot apply delta to ReplicatedCounter")
  ELSE Ok([c EXCEPT !.value = @ + d.body.change])

\* ---- ReplicatedSet -------------------------------------------------------
NewSet ==
  [kind |-> "replicatedSet", currentValue |-> {},
   added |-> {}, removed |-> {}, cleared |-> FALSE]

SetHas(s, e) == ToComparable(e) \in s.currentValue
SetSize(s) == Cardinality(s.currentValue)
SetElements(s) == s.currentValue

SetClear(s) ==
  IF Cardinality(s.currentValue) > 0
  THEN [s EXCEPT !.cleared = TRUE, !.added = {}, !.removed = {},
                 !.currentValue = {}]
  ELSE s

\* an add that never cancels a pending removal
SetAddKeepsRemoved(s, e) ==
  LET comparable == ToComparable(e) IN
  IF comparable \notin s.currentValue
  THEN [s EXCEPT !.added = @ \cup {comparable},
                 !.currentValue = @ \cup {comparable}]
  ELSE s

SetAdd(s, e) ==
  LET comparable == ToComparable(e) IN
  IF comparable \notin s.currentValue
  THEN IF comparable \in s.removed
       THEN [s EXCEPT !.removed = @ \ {comparable},
                      !.currentValue = @ \cup {comparable}]
       ELSE [s EXCEPT !.added = @ \cup {comparable},
                      !.currentValue = @ \cup {comparable}]
  ELSE s

RECURSIVE SetAddAll(_, _)
SetAddAll(s, elements) ==
  IF elements = <<>> THEN s
  ELSE SetAddAll(SetAdd(s, Head(elements)), Tail(elements))

\* a delete that treats the last element like any other element
SetDeleteWithoutClear(s, e) ==
  LET comparable == ToComparable(e) IN
  IF comparable \in s.currentValue
  THEN IF comparable \in s.added
       THEN [s EXCEPT !.currentValue = @ \ {comparable},
                      !.added = @ \ {comparable}]
       ELSE [s EXCEPT !.currentValue = @ \ {comparable},
                      !.removed = @ \cup {comparable}]
  ELSE s

\* a delete that records every removal and never cancels a pending add
SetDeleteKeepsAdded(s, e) ==
  LET comparable == ToComparable(e) IN
  IF comparable \in s.currentValue
  THEN [s EXCEPT !.currentValue = @ \ {comparable},
                 !.removed = @ \cup {comparable}]
  ELSE s

SetDelete(s, e) ==
  LET comparable == ToComparable(e) IN
  IF comparable \in s.currentValue
  THEN IF Cardinality(s.currentValue) = 1
       THEN SetClear(s)
       ELSE IF comparable \in s.added
            THEN [s EXCEPT !.currentValue = @ \ {comparable},
                           !.added = @ \ {comparable}]
            ELSE [s EXCEPT !.currentValue = @ \ {comparable},
                           !.removed = @ \cup {comparable}]
  ELSE s

\* a flush that forgets to clear the pending added elements
SetGetAndResetDeltaKeepsAdded(s, initial) ==
  IF s.cleared \/ Cardinality(s.added) > 0 \/ Cardinality(s.removed) > 0
     \/ initial
  THEN Flushed([kind |-> "replicatedSet",
                body |-> [cleared |-> s.cleared,
                          removed |-> SerializeAll(s.removed),
                          added |-> SerializeAll(s.added)]],
               [s EXCEPT !.cleared = FALSE, !.removed = {}])
  ELSE Flushed(Null, s)

SetGetAndResetDelta(s, initial) ==
  IF s.cleared \/ Cardinality(s.added) > 0 \/ Cardinality(s.removed) > 0
     \/ initial
  THEN Flushed([kind |-> "replicatedSet",
                body |-> [cleared |-> s.cleared,
                          removed |-> SerializeAll(s.removed),
                          added |-> SerializeAll(s.added)]],
               [s EXCEPT !.cleared = FALSE, !.added = {}, !.removed = {}])
  ELSE Flushed(Null, s)

RECURSIVE SetApplyRemoved(_, _)
SetApplyRemoved(cur, removed) ==
  IF removed = <<>> THEN cur
  ELSE SetApplyRemoved(cur \ {ToComparable(Deserialize(Head(removed)))},
                       Tail(removed))

RECURSIVE SetApplyAdded(_, _)
SetApplyAdded(cur, added) ==
  IF added = <<>> THEN cur
  ELSE SetApplyAdded(cur \cup {ToComparable(Deserialize(Head(added)))},
                     Tail(added))

\* an applyDelta that empties the set before it looks at the delta's kind
SetApplyDeltaClearsFirst(s, d) ==
  IF d.kind # "replicatedSet"
  THEN Thrown([s EXCEPT !.currentValue = {}],
              "Cannot apply delta to ReplicatedSet")
  ELSE LET c0 == IF d.body.cleared THEN {} ELSE s.currentValue
           c1 == SetApplyRemoved(c0, d.body.removed)
           c2 == SetApplyAdded(c1, d.body.added)
       IN Ok([s EXCEPT !.currentValue = c2])

SetApplyDelta(s, d) ==
  IF d.kind # "replicatedSet"
  THEN Thrown(s, "Cannot apply delta to ReplicatedSet")
  ELSE LET c0 == IF d.body.cleared THEN {} ELSE s.currentValue
           c1 == SetApplyRemoved(c0, d.body.removed)
           c2 == SetApplyAdded(c1, d.body.added)
       IN Ok([s EXCEPT !.currentValue = c2])

\* ---- constructors of the map types ---------------------------------------
NewMap ==
  [kind |-> "replicatedMap", currentValue |-> EmptyMap,
   added |-> {}, removed |-> {}, cleared |-> FALSE]

NewCounterMap ==
  [kind |-> "replicatedCounterMap", counters |-> EmptyMap,
   removed |-> {}, cleared |-> FALSE]

NewMultiMap ==
  [kind |-> "replicatedMultiMap", entries |-> EmptyMap,
   removed |-> {}, cleared |-> FALSE]

\* the tags createForDelta knows
KnownKinds ==
  {"counter", "replicatedSet", "register", "replicatedMap",
   "replicatedCounterMap", "replicatedRegisterMap", "replicatedMultiMap",
   "vote"}

\* new ReplicatedRegister(Empty), new ReplicatedRegisterMap(), new Vote():
\* empty instances of the kinds whose operations are not modelled
NewOpaque(kind) == [kind |-> kind]

\* the factory of the time before the counter map, the register map and the
\* multi-map were added
createForDeltaFiveKinds(delta) ==
  IF delta.kind = "counter" THEN Ok(NewCounter)
  ELSE IF delta.kind = "replicatedSet" THEN Ok(NewSet)
  ELSE IF delta.kind = "register" THEN Ok(NewOpaque("register"))
  ELSE IF delta.kind = "replicatedMap" THEN Ok(NewMap)
  ELSE IF delta.kind = "vote" THEN Ok(NewOpaque("vote"))
  ELSE Thrown(Null, "Unknown Replicated Data type")

createForDelta(delta) ==
  IF delta.kind = "counter" THEN Ok(NewCounter)
  ELSE IF delta.kind = "replicatedSet" THEN Ok(NewSet)
  ELSE IF delta.kind = "register" THEN Ok(NewOpaque("register"))
  ELSE IF delta.kind = "replicatedMap" THEN Ok(NewMap)
  ELSE IF delta.kind = "replicatedCounterMap" THEN Ok(NewCounterMap)
  ELSE IF delta.kind = "replicatedRegisterMap"
       THEN Ok(NewOpaque("replicatedRegisterMap"))
  ELSE IF delta.kind = "replicatedMultiMap" THEN Ok(NewMultiMap)
  ELSE IF delta.kind = "vote" THEN Ok(NewOpaque("vote"))
  ELSE Thrown(Null, "Unknown Replicated Data type")

\* value.getAndResetDelta(initial) / value.applyDelta(delta) of a value held
\* by a ReplicatedMap (the model nests counters and sets)
ValueGetAndResetDelta(v, initial) ==
  IF v.kind = "counter" THEN CounterGetAndResetDelta(v, initial)
  ELSE SetGetAndResetDelta(v, initial)

ValueApplyDelta(v, d) ==
  IF v.kind = "counter" THEN CounterApplyDelta(v, d)
  ELSE IF v.kind = "replicatedSet" THEN SetApplyDelta(v, d)
  ELSE IF v.kind = d.kind THEN Ok(v)
  ELSE Thrown(v, "Cannot apply delta")

\* ---- ReplicatedMap -------------------------------------------------------
\* value.hasOwnProperty('getAndResetDelta')
IsReplicatedData(v) == v.kind \in KnownKinds

MapHas(m, key) == ToComparable(key) \in DOMAIN m.currentValue
MapSize(m) == Cardinality(DOMAIN m.currentValue)

\* a set that cancels a pending removal of the key, as ReplicatedSet.add does
MapSetCancelsRemoval(m, key, value) ==
  IF ~IsReplicatedData(value)
  THEN Thrown(m, "only Replicated Data types may be added as values")
  ELSE LET comparable == ToComparable(key) IN
       Ok([m EXCEPT !.removed =
                      IF comparable \in DOMAIN m.currentValue
                         /\ comparable \notin m.added
                      THEN @ \cup {comparable} ELSE @ \ {comparable},
                    !.added = @ \cup {comparable},
                    !.currentValue = With(@, comparable, value)])

\* a set that records a removal for every key the map holds, pending or not
MapSetAlwaysRemoves(m, key, value) ==
  IF ~IsReplicatedData(value)
  THEN Thrown(m, "only Replicated Data types may be added as values")
  ELSE LET comparable == ToComparable(key) IN
       Ok([m EXCEPT !.removed =
                      IF comparable \in DOMAIN m.currentValue
                      THEN @ \cup {comparable} ELSE @,
                    !.added = @ \cup {comparable},
                    !.currentValue = With(@, comparable, value)])

\* a set that looks at the kind of the value after it has stored it
MapSetChecksLate(m, key, value) ==
  LET comparable == ToComparable(key)
      stored == [m EXCEPT !.added = @ \cup {comparable},
                          !.currentValue = With(@, comparable, value)]
  IN IF ~IsReplicatedData(value)
     THEN Thrown(stored, "only Replicated Data types may be added as values")
     ELSE Ok(stored)

MapSet(m, key, value) ==
  IF ~IsReplicatedData(value)
  THEN Thrown(m, "only Replicated Data types may be added as values")
  ELSE LET comparable == ToComparable(key)
           removed1 ==
             IF comparable \notin DOMAIN m.currentValue THEN m.removed
             ELSE IF comparable \notin m.added
                  THEN m.removed \cup {comparable}
                  ELSE m.removed
       IN Ok([m EXCEPT !.removed = removed1,
                       !.added = @ \cup {comparable},
                       !.currentValue = With(@, comparable, value)])

\* a get that returns the default value without setting it
MapGetNeverInserts(m, key, dflt) ==
  LET comparable == ToComparable(key) IN
  IF comparable \in DOMAIN m.currentValue
  THEN [result |-> m.currentValue[comparable], state |-> m, error |-> ""]
  ELSE [result |-> dflt, state |-> m, error |-> ""]

\* get(key) with this.defaultValue(key) returning dflt (Null: undefined); the
\* error of this.set(key, maybeDefault) is get's own
MapGet(m, key, dflt) ==
  LET comparable == ToComparable(key) IN
  IF comparable \in DOMAIN m.currentValue
  THEN [result |-> m.currentValue[comparable], state |-> m, error |-> ""]
  ELSE IF dflt # Null
       THEN LET r == MapSet(m, key, dflt) IN
            [result |-> IF r.error = "" THEN dflt ELSE Null,
             state |-> r.state, error |-> r.error]
       ELSE [result |-> dflt, state |-> m, error |-> ""]

\* a delete that records a removal even for a key that is pending in added
MapDeleteAlwaysRemoves(m, key) ==
  LET comparable == ToComparable(key) IN
  IF comparable \in DOMAIN m.currentValue
  THEN [m EXCEPT !.currentValue = Without(@, comparable),
                 !.added = @ \ {comparable},
                 !.removed = @ \cup {comparable}]
  ELSE m

MapDelete(m, key) ==
  LET comparable == ToComparable(key) IN
  IF comparable \in DOMAIN m.currentValue
  THEN IF comparable \in m.added
       THEN [m EXCEPT !.currentValue = Without(@, comparable),
                      !.added = @ \ {comparable}]
       ELSE [m EXCEPT !.currentValue = Without(@, comparable),
                      !.removed = @ \cup {comparable}]
  ELSE m

MapClear(m) ==
  IF Cardinality(DOMAIN m.currentValue) > 0
  THEN [m EXCEPT !.cleared = TRUE, !.added = {}, !.removed = {},
                 !.currentValue = EmptyMap]
  ELSE m

\* the entry deltas pushed while iterating currentValue
RECURSIVE MapAddedDeltas(_, _)
MapAddedDeltas(m, keys) ==
  IF keys = <<>> THEN <<>>
  ELSE LET k == Head(keys) IN
       IF k \in m.added
       THEN <<[key |-> Serialize(k),
               delta |-> ValueGetAndResetDelta(m.currentValue[k], TRUE).delta]>>
            \o MapAddedDeltas(m, Tail(keys))
       ELSE MapAddedDeltas(m, Tail(keys))

RECURSIVE MapUpdateDeltas(_, _)
MapUpdateDeltas(m, keys) ==
  IF keys = <<>> THEN <<>>
  ELSE LET k == Head(keys)
           entryDelta == ValueGetAndResetDelta(m.currentValue[k], FALSE).delta
       IN IF k \notin m.added /\ entryDelta # Null
          THEN <<[key |-> Serialize(k), delta |-> entryDelta]>>
               \o MapUpdateDeltas(m, Tail(keys))
          ELSE MapUpdateDeltas(m, Tail(keys))

MapGetAndResetDelta(m, initial) ==
  LET keys == SetToSeq(DOMAIN m.currentValue)
      addedDeltas == MapAddedDeltas(m, keys)
      updateDeltas == MapUpdateDeltas(m, keys)
      \* every value has been asked for its delta, which resets it
      values1 == [k \in DOMAIN m.currentValue |->
                    ValueGetAndResetDelta(m.currentValue[k], k \in m.added).state]
      m1 == [m EXCEPT !.currentValue = values1]
  IN IF m.cleared \/ Cardinality(m.removed) > 0 \/ Len(updateDeltas) > 0
        \/ Len(addedDeltas) > 0 \/ initial
     THEN Flushed([kind |-> "replicatedMap",
                   body |-> [cleared |-> m.cleared,
                             removed |-> SerializeAll(m.removed),
                             added |-> addedDeltas,
                             updated |-> updateDeltas]],
                  [m1 EXCEPT !.cleared = FALSE, !.added = {}, !.removed = {}])
     ELSE Flushed(Null, m1)

RECURSIVE MapApplyRemoved(_, _)
MapApplyRemoved(cur, removed) ==
  IF removed = <<>> THEN cur
  ELSE MapApplyRemoved(Without(cur, ToComparable(Deserialize(Head(removed)))),
                       Tail(removed))

\* an added entry that is ignored when its key is present
MapApplyAddedEntryIgnoresPresent(r, entry) ==
  LET created == createForDelta(entry.delta)
      value == ValueApplyDelta(created.state, entry.delta)
      comparable == ToComparable(Deserialize(entry.key))
  IN IF created.error # "" THEN Thrown(r.state, created.error)
     ELSE IF value.error # "" THEN Thrown(r.state, value.error)
     ELSE IF comparable \in DOMAIN r.state THEN r
     ELSE Ok(With(r.state, comparable, value.state))

\* one entry of delta.replicatedMap.added; r is the outcome so far
MapApplyAddedEntry(r, entry) ==
  LET created == createForDelta(entry.delta)
      value == ValueApplyDelta(created.state, entry.delta)
      comparable == ToComparable(Deserialize(entry.key))
  IN IF created.error # "" THEN Thrown(r.state, created.error)
     ELSE IF value.error # "" THEN Thrown(r.state, value.error)
     ELSE IF comparable \in DOMAIN r.state
     THEN LET upd == ValueApplyDelta(r.state[comparable], entry.delta) IN
          IF upd.error # "" THEN Thrown(r.state, upd.error)
          ELSE Ok(With(r.state, comparable, upd.state))
     ELSE Ok(With(r.state, comparable, value.state))

RECURSIVE MapApplyAdded(_, _)
MapApplyAdded(r, added) ==
  IF added = <<>> \/ r.error # "" THEN r
  ELSE MapApplyAdded(MapApplyAddedEntry(r, Head(added)), Tail(added))

\* one entry of delta.replicatedMap.updated
MapApplyUpdatedEntry(r, entry) ==
  LET comparable == ToComparable(Deserialize(entry.key)) IN
  IF comparable \in DOMAIN r.state
  THEN LET upd == ValueApplyDelta(r.state[comparable], entry.delta) IN
       IF upd.error # "" THEN Thrown(r.state, upd.error)
       ELSE Ok(With(r.state, comparable, upd.state))
  ELSE r

RECURSIVE MapApplyUpdated(_, _)
MapApplyUpdated(r, updated) ==
  IF updated = <<>> \/ r.error # "" THEN r
  ELSE MapApplyUpdated(MapApplyUpdatedEntry(r, Head(updated)), Tail(updated))

MapApplyDelta(m, d) ==
  IF d.kind # "replicatedMap"
  THEN Thrown(m, "Cannot apply delta to ReplicatedMap")
  ELSE LET c0 == IF d.body.cleared THEN EmptyMap ELSE m.currentValue
           c1 == MapApplyRemoved(c0, d.body.removed)
           r2 == MapApplyAdded(Ok(c1), d.body.added)
           r3 == MapApplyUpdated(r2, d.body.updated)
       IN [state |-> [m EXCEPT !.currentValue = r3.state],
           error |-> r3.error]

\* ---- ReplicatedCounterMap ------------------------------------------------
CounterMapHas(m, key) == ToComparable(key) \in DOMAIN m.counters
\* get(key): the counter's value, Null (undefined) when the key is absent
CounterMapGet(m, key) ==
  IF ToComparable(key) \in DOMAIN m.counters
  THEN m.counters[ToComparable(key)].value
  ELSE Null

\* getOrCreateCounter(key): the map with a counter at key
CounterMapGetOrCreateCounter(m, key) ==
  LET comparableKey == ToComparable(key) IN
  IF comparableKey \in DOMAIN m.counters THEN m
  ELSE [m EXCEPT !.counters = With(@, comparableKey, NewCounter)]

CounterMapIncrement(m, key, increment) ==
  LET m1 == CounterMapGetOrCreateCounter(m, key) IN
  [m1 EXCEPT !.counters[ToComparable(key)] = CounterIncrement(@, increment)]

CounterMapDecrement(m, key, decrement) ==
  CounterMapIncrement(m, key, 0 - decrement)

CounterMapDelete(m, key) ==
  LET comparableKey == ToComparable(key) IN
  IF comparableKey \in DOMAIN m.counters
  THEN [m EXCEPT !.counters = Without(@, comparableKey),
                 !.removed = @ \cup {comparableKey}]
  ELSE m

CounterMapClear(m) ==
  IF Cardinality(DOMAIN m.counters) > 0
  THEN [m EXCEPT !.cleared = TRUE, !.counters = EmptyMap, !.removed = {}]
  ELSE m

RECURSIVE CounterMapUpdated(_, _)
CounterMapUpdated(m, keys) ==
  IF keys = <<>> THEN <<>>
  ELSE LET k == Head(keys)
           delta == CounterGetAndResetDelta(m.counters[k], FALSE).delta
       IN IF delta # Null
          THEN <<[key |-> Serialize(k), delta |-> delta.body]>>
               \o CounterMapUpdated(m, Tail(keys))
          ELSE CounterMapUpdated(m, Tail(keys))

CounterMapGetAndResetDelta(m, initial) ==
  LET updated == CounterMapUpdated(m, SetToSeq(DOMAIN m.counters))
      m1 == [m EXCEPT !.counters =
               [k \in DOMAIN m.counters |->
                  CounterGetAndResetDelta(m.counters[k], FALSE).state]]
  IN IF m.cleared \/ Cardinality(m.removed) > 0 \/ Len(updated) > 0
        \/ initial
     THEN Flushed([kind |-> "replicatedCounterMap",
                   body |-> [cleared |-> m.cleared,
                             removed |-> SerializeAll(m.removed),
                             updated |-> updated]],
                  [m1 EXCEPT !.cleared = FALSE, !.removed = {}])
     ELSE Flushed(Null, m1)

RECURSIVE CounterMapApplyUpdated(_, _)
CounterMapApplyUpdated(m, updated) ==
  IF updated = <<>> THEN m
  ELSE LET key == Deserialize(Head(updated).key)
           m1 == CounterMapGetOrCreateCounter(m, key)
           c == CounterApplyDelta(m1.counters[ToComparable(key)],
                                  [kind |-> "counter",
                                   body |-> Head(updated).delta]).state
       IN CounterMapApplyUpdated(
            [m1 EXCEPT !.counters[ToComparable(key)] = c], Tail(updated))

CounterMapApplyDelta(m, d) ==
  IF d.kind # "replicatedCounterMap"
  THEN Thrown(m, "Cannot apply delta to ReplicatedCounterMap")
  ELSE LET c0 == IF d.body.cleared THEN EmptyMap ELSE m.counters
           c1 == MapApplyRemoved(c0, d.body.removed)
       IN Ok(CounterMapApplyUpdated([m EXCEPT !.counters = c1],
                                    d.body.updated))

\* ---- ReplicatedMultiMap --------------------------------------------------
MultiMapHas(m, key) == ToComparable(key) \in DOMAIN m.entries
MultiMapGet(m, key) ==
  IF ToComparable(key) \in DOMAIN m.entries
  THEN SetElements(m.entries[ToComparable(key)])
  ELSE {}
MultiMapKeysSize(m) == Cardinality(DOMAIN m.entries)

MultiMapGetOrCreateValues(m, key) ==
  LET comparableKey == ToComparable(key) IN
  IF comparableKey \in DOMAIN m.entries THEN m
  ELSE [m EXCEPT !.entries = With(@, comparableKey, NewSet)]

MultiMapPut(m, key, value) ==
  LET m1 == MultiMapGetOrCreateValues(m, key) IN
  [m1 EXCEPT !.entries[ToComparable(key)] = SetAdd(@, value)]

MultiMapPutAll(m, key, values) ==
  LET m1 == MultiMapGetOrCreateValues(m, key) IN
  [m1 EXCEPT !.entries[ToComparable(key)] = SetAddAll(@, values)]

MultiMapDeleteAll(m, key) ==
  LET comparableKey == ToComparable(key) IN
  IF comparableKey \in DOMAIN m.entries
  THEN [m EXCEPT !.entries = Without(@, comparableKey),
                 !.removed = @ \cup {comparableKey}]
  ELSE m

MultiMapDelete(m, key, value) ==
  LET comparableKey == ToComparable(key) IN
  IF comparableKey \in DOMAIN m.entries
  THEN LET m1 == [m EXCEPT !.entries[comparableKey] = SetDelete(@, value)] IN
       IF SetSize(m1.entries[comparableKey]) = 0
       THEN MultiMapDeleteAll(m1, key)
       ELSE m1
  ELSE m

MultiMapClear(m) ==
  IF Cardinality(DOMAIN m.entries) > 0
  THEN [m EXCEPT !.cleared = TRUE, !.entries = EmptyMap, !.removed = {}]
  ELSE m

RECURSIVE MultiMapUpdated(_, _)
MultiMapUpdated(m, keys) ==
  IF keys = <<>> THEN <<>>
  ELSE LET k == Head(keys)
           delta == SetGetAndResetDelta(m.entries[k], FALSE).delta
       IN IF delta # Null
          THEN <<[key |-> Serialize(k), delta |-> delta.body]>>
               \o MultiMapUpdated(m, Tail(keys))
          ELSE MultiMapUpdated(m, Tail(keys))

MultiMapGetAndResetDelta(m, initial) ==
  LET updated == MultiMapUpdated(m, SetToSeq(DOMAIN m.entries))
      m1 == [m EXCEPT !.entries =
               [k \in DOMAIN m.entries |->
                  SetGetAndResetDelta(m.entries[k], FALSE).state]]
  IN IF m.cleared \/ Cardinality(m.removed) > 0 \/ Len(updated) > 0
        \/ initial
     THEN Flushed([kind |-> "replicatedMultiMap",
                   body |-> [cleared |-> m.cleared,
                             removed |-> SerializeAll(m.removed),
                             updated |-> updated]],
                  [m1 EXCEPT !.cleared = FALSE, !.removed = {}])
     ELSE Flushed(Null, m1)

RECURSIVE MultiMapApplyUpdated(_, _)
MultiMapApplyUpdated(m, updated) ==
  IF updated = <<>> THEN m
  ELSE LET key == Deserialize(Head(updated).key)
           m1 == MultiMapGetOrCreateValues(m, key)
           v == SetApplyDelta(m1.entries[ToComparable(key)],
                              [kind |-> "replicatedSet",
                               body |-> Head(updated).delta]).state
       IN MultiMapApplyUpdated(
            [m1 EXCEPT !.entries[ToComparable(key)] = v], Tail(updated))

MultiMapApplyDelta(m, d) ==
  IF d.kind # "replicatedMultiMap"
  THEN Thrown(m, "Cannot apply delta to ReplicatedMultiMap")
  ELSE LET e0 == IF d.body.cleared THEN EmptyMap ELSE m.entries
           e1 == MapApplyRemoved(e0, d.body.removed)
       IN Ok(MultiMapApplyUpdated([m EXCEPT !.entries = e1],
                                  d.body.updated))

\* ---- the four collection types behind one interface ----------------------
New(kind) ==
  IF kind = "replicatedSet" THEN NewSet
  ELSE IF kind = "replicatedMap" THEN NewMap
  ELSE IF kind = "replicatedCounterMap" THEN NewCounterMap
  ELSE NewMultiMap

getAndResetDelta(c, initial) ==
  IF c.kind = "replicatedSet" THEN SetGetAndResetDelta(c, initial)
  ELSE IF c.kind = "replicatedMap" THEN MapGetAndResetDelta(c, initial)
  ELSE IF c.kind = "replicatedCounterMap"
       THEN CounterMapGetAndResetDelta(c, initial)
  ELSE MultiMapGetAndResetDelta(c, initial)

applyDelta(c, d) ==
  IF c.kind = "replicatedSet" THEN SetApplyDelta(c, d)
  ELSE IF c.kind = "replicatedMap" THEN MapApplyDelta(c, d)
  ELSE IF c.kind = "replicatedCounterMap" THEN CounterMapApplyDelta(c, d)
  ELSE MultiMapApplyDelta(c, d)

\* what user code can observe of a value held by a ReplicatedMap
ValueObservable(v) ==
  IF v.kind = "counter" THEN [kind |-> "counter", value |-> v.value]
  ELSE IF v.kind = "replicatedSet"
       THEN [kind |-> "replicatedSet", elements |-> SetElements(v)]
  ELSE [kind |-> v.kind]

\* what user code can observe of a collection: its keys or elements (has,
\* size) and the value at every key (get)
Observable(c) ==
  IF c.kind = "replicatedSet"
  THEN [kind |-> c.kind, elements |-> SetElements(c)]
  ELSE IF c.kind = "replicatedMap"
  THEN [kind |-> c.kind,
        entries |-> [k \in DOMAIN c.currentValue |->
                       ValueObservable(c.currentValue[k])]]
  ELSE IF c.kind = "replicatedCounterMap"
  THEN [kind |-> c.kind,
        entries |-> [k \in DOMAIN c.counters |-> CounterMapGet(c, k)]]
  ELSE [kind |-> c.kind,
        entries |-> [k \in DOMAIN c.entries |-> MultiMapGet(c, k)]]

\* ---- inputs ---------------------------------------------------------------
SeqsUpTo(S, n) == UNION {[1..m -> S] : m \in 0..n}

CollectionKinds ==
  {"replicatedSet", "replicatedMap", "replicatedCounterMap",
   "replicatedMultiMap"}

\* values user code passes to ReplicatedMap.set: a new counter, a counter
\* incremented before it is added, a new set with one element, and a plain
\* object
PlainObject == [kind |-> "object"]
MapValues ==
  {NewCounter, CounterIncrement(NewCounter, 1), SetAdd(NewSet, 1),
   PlainObject}

\* what the defaultValue callback returns: undefined or a new counter
DefaultValues == {Null, NewCounter, PlainObject}

\* removed and added lists of an inbound delta over the serialized forms S
Lists(S) ==
  {p \in SeqsUpTo(S, MaxDeltaLen) \X SeqsUpTo(S, MaxDeltaLen) :
     Len(p[1]) + Len(p[2]) <= MaxDeltaLen}

SetBodies ==
  {[cleared |-> c, removed |-> p[1], added |-> p[2]] :
     c \in BOOLEAN, p \in Lists({Serialize(e) : e \in Elems})}

\* deltas of the values of an inbound ReplicatedMap delta; the last one
\* carries none of the known tags
ValueDeltas ==
  {[kind |-> "counter", body |-> [change |-> 1]],
   [kind |-> "replicatedSet",
    body |-> [cleared |-> FALSE, removed |-> <<>>,
              added |-> <<Serialize(1)>>]],
   [kind |-> "untagged", body |-> [change |-> 0]]}

MapEntryDeltas ==
  {[key |-> Serialize(k), delta |-> d] : k \in Keys, d \in ValueDeltas}

CounterMapEntryDeltas ==
  {[key |-> Serialize(k), delta |-> [change |-> n]] :
     k \in Keys, n \in {-1, 1}}

MultiMapEntryDeltas ==
  {[key |-> Serialize(k), delta |-> b] :
     k \in Keys, b \in {x \in SetBodies : ~x.cleared}}

SerializedKeys == {Serialize(k) : k \in Keys}

\* removed keys and entry deltas of an inbound delta of a map type
KeyLists(entries) ==
  {p \in SeqsUpTo(SerializedKeys, MaxDeltaLen)
         \X SeqsUpTo(entries, MaxDeltaLen) \X {"added", "updated"} :
     Len(p[1]) + Len(p[2]) <= MaxDeltaLen}

\* delta envelopes of another kind than the collection's: a counter delta
\* and empty deltas of the other collection kinds
OtherKindDeltas(kind) ==
  {[kind |-> "counter", body |-> [change |-> 1]]}
  \cup {[kind |-> other,
          body |-> [cleared |-> FALSE, removed |-> <<>>, added |-> <<>>,
                    updated |-> <<>>]] :
          other \in CollectionKinds \ {kind}}

\* the deltas the proxy sends to a collection of the given kind, and
\* deltas of another kind
InboundDeltas(kind) ==
  (IF kind = "replicatedSet"
   THEN {[kind |-> kind, body |-> b] : b \in SetBodies}
   ELSE IF kind = "replicatedMap"
   THEN {[kind |-> kind,
          body |-> [cleared |-> c, removed |-> p[1],
                    added |-> IF p[3] = "added" THEN p[2] ELSE <<>>,
                    updated |-> IF p[3] = "updated" THEN p[2] ELSE <<>>]] :
           c \in BOOLEAN, p \in KeyLists(MapEntryDeltas)}
   ELSE IF kind = "replicatedCounterMap"
   THEN {[kind |-> kind,
          body |-> [cleared |-> c, removed |-> p[1], updated |-> p[2]]] :
           c \in BOOLEAN, p \in KeyLists(CounterMapEntryDeltas)}
   ELSE {[kind |-> kind,
          body |-> [cleared |-> c, removed |-> p[1], updated |-> p[2]]] :
           c \in BOOLEAN, p \in KeyLists(MultiMapEntryDeltas)})
  \cup OtherKindDeltas(kind)

\* counters stay within the modelled range
CounterInRange(c) ==
  c.value \in 0..MaxCount /\ c.delta \in (0 - MaxPending)..MaxPending

InRange(c) ==
  IF c.kind = "replicatedMap"
  THEN \A k \in DOMAIN c.currentValue :
         c.currentValue[k].kind = "counter"
           => CounterInRange(c.currentValue[k])
  ELSE IF c.kind = "replicatedCounterMap"
  THEN \A k \in DOMAIN c.counters : CounterInRange(c.counters[k])
  ELSE TRUE

\* ---- one replicated collection under local calls, flushes and inbound
\* ---- deltas ---------------------------------------------------------------
VARIABLES
  crdt,   \* the collection object (its kind is chosen at construction)
  watch,  \* the call pattern this behaviour keeps a history of
  op,     \* the last call made on the object: [name, arg]
  ret,    \* what that call returned: [delta, error]
  hist,   \* used: a delta was taken or applied before the last call;
          \* local, inbound: the flush window of the last call saw a local
          \* mutator call / an inbound delta (a window ends with its flush);
          \* consecutive: the last two calls were both getAndResetDelta;
          \* opened: the flush window of the last call began with a
          \* getAndResetDelta;
          \* prevKeys: the keys held when the flush window of the last call
          \* began
  scen    \* how far the watched call pattern has got

crdtVars == <<crdt, watch, op, ret, hist, scen>>

\* the histories kept: of the object's first flush, of flush windows, of
\* add-then-delete, of a redelivered delta, of delete-then-set, of a set on
\* a present key, of the keys held at the previous flush, of the delete of
\* a set's only element, of get on an absent key
Watches(kind) ==
  {"fresh", "window"}
  \cup (IF kind \in {"replicatedSet", "replicatedMap"}
        THEN {"cancel", "repeat"} ELSE {})
  \cup (IF kind = "replicatedSet" THEN {"last"} ELSE {})
  \cup (IF kind = "replicatedMap"
        THEN {"readd", "overwrite", "prev", "default"} ELSE {})

\* a call of user code: a mutator, or get, of the collection
Call(name) ==
  [name |-> IF name \in {"new", "get"} THEN name ELSE "mutator",
   arg |-> Null]
Returned == [delta |-> Null, error |-> ""]

NoReadd == [key |-> 0, stage |-> 0]
NoOverwrite ==
  [key |-> 0, value |-> Null, wasAdded |-> FALSE, wasRemoved |-> FALSE]
NoLast == [before |-> Null, flushed |-> FALSE]
NoDefault ==
  [key |-> 0, value |-> Null, result |-> Null, error |-> "",
   before |-> Null, stage |-> 0]
NoScen ==
  [armed |-> 0,              \* x: the last call was add(x) / set(x, v)
   cancel |-> 0,             \* x: the last calls were add(x) then delete(x)
   readd |-> NoReadd,        \* a key of the last flush deleted (1), set again
                             \* (2), flushed (3), flushed once more (4)
   overwrite |-> NoOverwrite, \* the last call set a key that was present
   repeat |-> FALSE,         \* the last call applied the same delta again
   last |-> NoLast,          \* the last call deleted the only element of the
                             \* set before; flushed: and was then flushed
   dflt |-> NoDefault]       \* the last call was get(key) on a map (before)
                             \* without the key, whose callback returned
                             \* value (1), and was then flushed (2)

\* the part of a history that the behaviour keeps
Kept(sc) ==
  [armed |-> IF watch = "cancel" THEN sc.armed ELSE 0,
   cancel |-> IF watch = "cancel" THEN sc.cancel ELSE 0,
   readd |-> IF watch = "readd" THEN sc.readd ELSE NoReadd,
   overwrite |-> IF watch = "overwrite" THEN sc.overwrite ELSE NoOverwrite,
   repeat |-> watch = "repeat" /\ sc.repeat,
   last |-> IF watch = "last" THEN sc.last ELSE NoLast,
   dflt |-> IF watch = "default" THEN sc.dflt ELSE NoDefault]

\* a readd pattern survives calls on other keys until it is flushed
KeepReadd == IF scen.readd.stage \in {1, 2} THEN scen.readd ELSE NoReadd

InitCrdt ==
  \E kind \in CollectionKinds :
    /\ crdt = New(kind)
    /\ watch \in Watches(kind)
    /\ op = Call("new")
    /\ ret = Returned
    /\ hist = [used |-> FALSE, local |-> FALSE, inbound |-> FALSE,
               consecutive |-> FALSE, opened |-> FALSE, prevKeys |-> {}]
    /\ scen = NoScen

\* the last call was a flush: the next call opens a new flush window
AfterFlush == op.name = "getAndResetDelta"

\* the keys or elements the collection holds
KeysOf(c) ==
  IF c.kind = "replicatedSet" THEN c.currentValue
  ELSE IF c.kind = "replicatedMap" THEN DOMAIN c.currentValue
  ELSE IF c.kind = "replicatedCounterMap" THEN DOMAIN c.counters
  ELSE DOMAIN c.entries

\* the keys held at the flush that opened the flush window of the next call
PrevKeys ==
  IF watch # "prev" THEN {}
  ELSE IF AfterFlush THEN KeysOf(crdt) ELSE hist.prevKeys

\* the history after a call that is a local mutator call / applies a delta
History(local, inbound) ==
  [used |-> watch = "fresh" /\ (hist.used \/ AfterFlush \/ inbound),
   local |-> /\ watch = "window"
             /\ ((hist.local /\ ~AfterFlush) \/ local),
   inbound |-> /\ watch \in {"window", "readd", "prev"}
               /\ ((hist.inbound /\ ~AfterFlush) \/ inbound),
   consecutive |-> FALSE,
   opened |-> watch = "window" /\ (AfterFlush \/ hist.opened),
   prevKeys |-> PrevKeys]

\* a local mutator call that leaves the object as next
Mutator(next, call, returned, sc) ==
  /\ InRange(next)
  /\ crdt' = next
  /\ op' = call
  /\ ret' = returned
  /\ scen' = Kept(sc)
  /\ hist' = History(TRUE, FALSE)
  /\ UNCHANGED watch

\* -- ReplicatedSet
CallSetAdd(e) ==
  /\ crdt.kind = "replicatedSet"
  /\ Mutator(SetAdd(crdt, e), Call("add"), Returned,
             [NoScen EXCEPT !.armed = e])

CallSetAddAll(es) ==
  /\ crdt.kind = "replicatedSet"
  /\ Mutator(SetAddAll(crdt, es), Call("addAll"), Returned, NoScen)

CallSetDelete(e) ==
  /\ crdt.kind = "replicatedSet"
  /\ Mutator(SetDelete(crdt, e), Call("delete"), Returned,
             [NoScen EXCEPT
                !.cancel = IF scen.armed = e THEN e ELSE 0,
                !.last = IF crdt.currentValue = {ToComparable(e)}
                         THEN [before |-> crdt, flushed |-> FALSE]
                         ELSE NoLast])

CallSetClear ==
  /\ crdt.kind = "replicatedSet"
  /\ Mutator(SetClear(crdt), Call("clear"), Returned, NoScen)

\* -- ReplicatedMap
ReaddAfterSet(k) ==
  IF scen.readd.key = k /\ scen.readd.stage = 1
  THEN [key |-> k, stage |-> 2]
  ELSE KeepReadd

CallMapSet(k, v) ==
  /\ crdt.kind = "replicatedMap"
  /\ LET r == MapSet(crdt, k, v) IN
     Mutator(r.state, Call("set"),
             [Returned EXCEPT !.error = r.error],
             IF r.error # ""
             THEN [NoScen EXCEPT !.readd = KeepReadd]
             ELSE [NoScen EXCEPT
                     !.armed = k,
                     !.readd = ReaddAfterSet(k),
                     !.overwrite =
                       IF MapHas(crdt, k)
                       THEN [key |-> k, value |-> v,
                             wasAdded |-> k \in crdt.added,
                             wasRemoved |-> k \in crdt.removed]
                       ELSE NoOverwrite])

CallMapGet(k, dflt) ==
  /\ crdt.kind = "replicatedMap"
  /\ LET r == MapGet(crdt, k, dflt)
         inserts == ~MapHas(crdt, k) /\ dflt # Null /\ r.error = ""
         asked == IF MapHas(crdt, k) THEN NoDefault
                  ELSE [key |-> k, value |-> dflt, result |-> r.result,
                        error |-> r.error, before |-> crdt, stage |-> 1]
     IN /\ crdt' = r.state
        /\ op' = Call("get")
        /\ ret' = [Returned EXCEPT !.error = r.error]
        /\ scen' = Kept(IF inserts
                        THEN [NoScen EXCEPT !.armed = k,
                                            !.readd = ReaddAfterSet(k),
                                            !.dflt = asked]
                        ELSE [NoScen EXCEPT !.readd = KeepReadd,
                                            !.dflt = asked])
        /\ hist' = History(inserts, FALSE)
        /\ UNCHANGED watch

CallMapDelete(k) ==
  /\ crdt.kind = "replicatedMap"
  /\ Mutator(MapDelete(crdt, k), Call("delete"), Returned,
             [NoScen EXCEPT
                !.cancel = IF scen.armed = k THEN k ELSE 0,
                !.readd =
                  \* k has been in the map since the last flush
                  IF /\ MapHas(crdt, k)
                     /\ k \notin crdt.added
                     /\ ~hist.inbound \/ AfterFlush
                  THEN [key |-> k, stage |-> 1]
                  ELSE IF scen.readd.key = k THEN NoReadd ELSE KeepReadd])

CallMapClear ==
  /\ crdt.kind = "replicatedMap"
  /\ Mutator(MapClear(crdt), Call("clear"), Returned, NoScen)

\* user code increments the counter it got from the map: get(k).increment(n)
CallMapValueIncrement(k, n) ==
  /\ crdt.kind = "replicatedMap"
  /\ MapHas(crdt, k)
  /\ crdt.currentValue[k].kind = "counter"
  /\ Mutator([crdt EXCEPT !.currentValue[k] = CounterIncrement(@, n)],
             Call("value.increment"), Returned,
             [NoScen EXCEPT !.readd = KeepReadd])

\* -- ReplicatedCounterMap
CallCounterMapIncrement(k, n) ==
  /\ crdt.kind = "replicatedCounterMap"
  /\ Mutator(CounterMapIncrement(crdt, k, n), Call("increment"),
             Returned, NoScen)

CallCounterMapDecrement(k, n) ==
  /\ crdt.kind = "replicatedCounterMap"
  /\ Mutator(CounterMapDecrement(crdt, k, n), Call("decrement"),
             Returned, NoScen)

CallCounterMapDelete(k) ==
  /\ crdt.kind = "replicatedCounterMap"
  /\ Mutator(CounterMapDelete(crdt, k), Call("delete"), Returned,
             NoScen)

CallCounterMapClear ==
  /\ crdt.kind = "replicatedCounterMap"
  /\ Mutator(CounterMapClear(crdt), Call("clear"), Returned, NoScen)

\* -- ReplicatedMultiMap
CallMultiMapPut(k, v) ==
  /\ crdt.kind = "replicatedMultiMap"
  /\ Mutator(MultiMapPut(crdt, k, v), Call("put"), Returned, NoScen)

CallMultiMapPutAll(k, vs) ==
  /\ crdt.kind = "replicatedMultiMap"
  /\ Mutator(MultiMapPutAll(crdt, k, vs), Call("putAll"), Returned,
             NoScen)

CallMultiMapDelete(k, v) ==
  /\ crdt.kind = "replicatedMultiMap"
  /\ Mutator(MultiMapDelete(crdt, k, v), Call("delete"), Returned,
             NoScen)

CallMultiMapDeleteAll(k) ==
  /\ crdt.kind = "replicatedMultiMap"
  /\ Mutator(MultiMapDeleteAll(crdt, k), Call("deleteAll"),
             Returned, NoScen)

CallMultiMapClear ==
  /\ crdt.kind = "replicatedMultiMap"
  /\ Mutator(MultiMapClear(crdt), Call("clear"), Returned, NoScen)

\* -- the two operations the host calls
CallGetAndResetDelta(initial) ==
  LET f == getAndResetDelta(crdt, initial) IN
  /\ crdt' = f.state
  /\ op' = [name |-> "getAndResetDelta", arg |-> [initial |-> initial]]
  /\ ret' = [Returned EXCEPT !.delta = f.delta]
  /\ hist' = [used |-> watch = "fresh" /\ (hist.used \/ AfterFlush),
              local |-> hist.local /\ ~AfterFlush,
              inbound |-> hist.inbound /\ ~AfterFlush,
              consecutive |-> watch = "window" /\ AfterFlush,
              opened |-> watch = "window" /\ (AfterFlush \/ hist.opened),
              prevKeys |-> PrevKeys]
  /\ scen' =
       Kept(IF initial THEN NoScen
            ELSE [NoScen EXCEPT
                    !.cancel = IF AfterFlush THEN 0 ELSE scen.cancel,
                    !.overwrite = IF AfterFlush THEN NoOverwrite
                                  ELSE scen.overwrite,
                    !.readd = IF scen.readd.stage \in {2, 3}
                              THEN [scen.readd EXCEPT !.stage = @ + 1]
                              ELSE NoReadd,
                    !.last = IF scen.last.before # Null /\ ~scen.last.flushed
                             THEN [scen.last EXCEPT !.flushed = TRUE]
                             ELSE NoLast,
                    !.dflt = IF scen.dflt.stage = 1
                             THEN [scen.dflt EXCEPT !.stage = 2]
                             ELSE NoDefault])
  /\ UNCHANGED watch

CallApplyDelta(d) ==
  LET r == applyDelta(crdt, d) IN
  /\ InRange(r.state)
  /\ crdt' = r.state
  /\ op' = [name |-> "applyDelta",
            arg |-> IF watch = "repeat" THEN d ELSE Null]
  /\ ret' = [Returned EXCEPT !.error = r.error]
  /\ hist' = History(FALSE, TRUE)
  /\ scen' = Kept([NoScen EXCEPT
                     !.repeat = /\ op.name = "applyDelta"
                                /\ op.arg = d
                                /\ ret.error = ""
                                /\ r.error = ""])
  /\ UNCHANGED watch

NextCrdt ==
  \/ \E e \in Elems : CallSetAdd(e)
  \/ \E es \in SeqsUpTo(Elems, 2) : CallSetAddAll(es)
  \/ \E e \in Elems : CallSetDelete(e)
  \/ CallSetClear
  \/ \E k \in Keys, v \in MapValues : CallMapSet(k, v)
  \/ \E k \in Keys, dflt \in DefaultValues : CallMapGet(k, dflt)
  \/ \E k \in Keys : CallMapDelete(k)
  \/ CallMapClear
  \/ \E k \in Keys, n \in Incs : CallMapValueIncrement(k, n)
  \/ \E k \in Keys, n \in Incs : CallCounterMapIncrement(k, n)
  \/ \E k \in Keys, n \in Incs : CallCounterMapDecrement(k, n)
  \/ \E k \in Keys : CallCounterMapDelete(k)
  \/ CallCounterMapClear
  \/ \E k \in Keys, v \in Elems : CallMultiMapPut(k, v)
  \/ \E k \in Keys, vs \in SeqsUpTo(Elems, 2) : CallMultiMapPutAll(k, vs)
  \/ \E k \in Keys, v \in Elems : CallMultiMapDelete(k, v)
  \/ \E k \in Keys : CallMultiMapDeleteAll(k)
  \/ CallMultiMapClear
  \/ \E initial \in BOOLEAN : CallGetAndResetDelta(initial)
  \/ \E d \in InboundDeltas(crdt.kind) : CallApplyDelta(d)

\* ---- a collection A under local calls whose flushed deltas are applied to
\* ---- a replica B, or which takes inbound deltas before its flush ----------
VARIABLES
  origin,   \* the collection A
  mirror,   \* the replica B, which is given every delta A flushes
  twin,     \* a copy of A as of its last flush that is given the local calls
            \* of A and none of the inbound deltas that follow them
  pattern,  \* "mirror": A sees local calls and flushes only;
            \* "inbound": A is also given deltas of the proxy
  track     \* the last step, whether the flush window saw a local call and
            \* an inbound delta after it, and what the flush returned

trackVars == <<origin, mirror, twin, pattern, track>>

\* the kinds followed with a replica B
MirroredKinds == {"replicatedSet", "replicatedMap", "replicatedCounterMap"}

\* values that were part of a flushed collection before: a counter that was
\* incremented and a set that holds an element, their deltas taken
UsedValues ==
  {CounterGetAndResetDelta(CounterIncrement(NewCounter, 1), FALSE).state,
   SetGetAndResetDelta(SetAdd(NewSet, 1), FALSE).state}

LocalCall(name, key, arg) == [name |-> name, key |-> key, arg |-> arg]

\* the local calls of user code on a collection of the kind
LocalCalls(kind) ==
  IF kind = "replicatedSet"
  THEN {LocalCall("add", 0, e) : e \in Elems}
       \cup {LocalCall("addAll", 0, es) : es \in SeqsUpTo(Elems, 2)}
       \cup {LocalCall("delete", 0, e) : e \in Elems}
       \cup {LocalCall("clear", 0, 0)}
  ELSE IF kind = "replicatedMap"
  THEN {LocalCall("set", k, v) : k \in Keys, v \in MapValues \cup UsedValues}
       \cup {LocalCall("get", k, d) : k \in Keys, d \in DefaultValues}
       \cup {LocalCall("delete", k, 0) : k \in Keys}
       \cup {LocalCall("clear", 0, 0)}
       \cup {LocalCall("value.increment", k, n) : k \in Keys, n \in Incs}
       \cup {LocalCall("value.add", k, e) : k \in Keys, e \in Elems}
       \cup {LocalCall("value.delete", k, e) : k \in Keys, e \in Elems}
  ELSE IF kind = "replicatedCounterMap"
  THEN {LocalCall("increment", k, n) : k \in Keys, n \in Incs}
       \cup {LocalCall("decrement", k, n) : k \in Keys, n \in Incs}
       \cup {LocalCall("delete", k, 0) : k \in Keys}
       \cup {LocalCall("clear", 0, 0)}
  ELSE {LocalCall("put", k, v) : k \in Keys, v \in Elems}
       \cup {LocalCall("putAll", k, vs) :
               k \in Keys, vs \in SeqsUpTo(Elems, 2)}
       \cup {LocalCall("delete", k, v) : k \in Keys, v \in Elems}
       \cup {LocalCall("deleteAll", k, 0) : k \in Keys}
       \cup {LocalCall("clear", 0, 0)}

\* user code mutates the value it got from a ReplicatedMap
MapValueCall(m, call) ==
  IF ~MapHas(m, call.key) THEN m
  ELSE LET value == m.currentValue[ToComparable(call.key)] IN
       IF call.name = "value.increment" /\ value.kind = "counter"
       THEN [m EXCEPT !.currentValue[ToComparable(call.key)] =
                        CounterIncrement(value, call.arg)]
       ELSE IF call.name = "value.add" /\ value.kind = "replicatedSet"
       THEN [m EXCEPT !.currentValue[ToComparable(call.key)] =
                        SetAdd(value, call.arg)]
       ELSE IF call.name = "value.delete" /\ value.kind = "replicatedSet"
       THEN [m EXCEPT !.currentValue[ToComparable(call.key)] =
                        SetDelete(value, call.arg)]
       ELSE m

\* the collection after the call
AfterCall(c, call) ==
  IF c.kind = "replicatedSet"
  THEN IF call.name = "add" THEN SetAdd(c, call.arg)
       ELSE IF call.name = "addAll" THEN SetAddAll(c, call.arg)
       ELSE IF call.name = "delete" THEN SetDelete(c, call.arg)
       ELSE SetClear(c)
  ELSE IF c.kind = "replicatedMap"
  THEN IF call.name = "set" THEN MapSet(c, call.key, call.arg).state
       ELSE IF call.name = "get" THEN MapGet(c, call.key, call.arg).state
       ELSE IF call.name = "delete" THEN MapDelete(c, call.key)
       ELSE IF call.name = "clear" THEN MapClear(c)
       ELSE MapValueCall(c, call)
  ELSE IF c.kind = "replicatedCounterMap"
  THEN IF call.name = "increment"
       THEN CounterMapIncrement(c, call.key, call.arg)
       ELSE IF call.name = "decrement"
       THEN CounterMapDecrement(c, call.key, call.arg)
       ELSE IF call.name = "delete" THEN CounterMapDelete(c, call.key)
       ELSE CounterMapClear(c)
  ELSE IF call.name = "put" THEN MultiMapPut(c, call.key, call.arg)
       ELSE IF call.name = "putAll"
       THEN MultiMapPutAll(c, call.key, call.arg)
       ELSE IF call.name = "delete"
       THEN MultiMapDelete(c, call.key, call.arg)
       ELSE IF call.name = "deleteAll" THEN MultiMapDeleteAll(c, call.key)
       ELSE MultiMapClear(c)

NoTrack ==
  [step |-> "new", call |-> LocalCall("new", 0, 0), local |-> FALSE,
   inbound |-> FALSE, delta |-> Null, twinDelta |-> Null]

InitTrack ==
  \E kind \in CollectionKinds :
    /\ pattern \in (IF kind \in MirroredKinds THEN {"mirror"} ELSE {})
                     \cup {"inbound"}
    /\ origin = New(kind)
    /\ mirror = New(kind)
    /\ twin = New(kind)
    /\ track = NoTrack

\* no collection is followed
IdleTrack ==
  /\ pattern = "none"
  /\ origin = NewSet
  /\ mirror = NewSet
  /\ twin = NewSet
  /\ track = NoTrack

\* the flush window begins with the next step
WindowOver == track.step = "flush"

\* a local call on A, before any inbound delta of this flush window
TrackLocal(call) ==
  /\ ~track.inbound \/ WindowOver
  /\ origin' = AfterCall(origin, call)
  /\ InRange(origin')
  /\ twin' = IF pattern = "inbound" THEN AfterCall(twin, call) ELSE twin
  /\ track' = [step |-> "local", call |-> call, local |-> TRUE,
               inbound |-> FALSE, delta |-> Null, twinDelta |-> Null]
  /\ UNCHANGED <<mirror, pattern>>

\* the proxy's delta is applied to A; the twin is given it only when the
\* flush window saw no local call yet
TrackInbound(d) ==
  /\ pattern = "inbound"
  /\ LET r == applyDelta(origin, d)
         local == track.local /\ ~WindowOver
     IN /\ r.error = ""
        /\ InRange(r.state)
        /\ origin' = r.state
        /\ twin' = IF local THEN twin ELSE r.state
        /\ track' = [step |-> "inbound", call |-> LocalCall("applyDelta", 0, 0),
                     local |-> local, inbound |-> local, delta |-> Null,
                     twinDelta |-> Null]
  /\ UNCHANGED <<mirror, pattern>>

\* A is flushed and its delta, unless null, applied to B
TrackFlush ==
  LET f == getAndResetDelta(origin, FALSE)
      t == getAndResetDelta(twin, FALSE)
  IN /\ origin' = f.state
     /\ mirror' = IF pattern = "mirror" /\ f.delta # Null
                  THEN applyDelta(mirror, f.delta).state
                  ELSE mirror
     /\ twin' = IF pattern = "inbound" THEN f.state ELSE twin
     /\ track' = [step |-> "flush", call |-> track.call,
                  local |-> track.local /\ ~WindowOver,
                  inbound |-> track.inbound /\ ~WindowOver,
                  delta |-> f.delta,
                  twinDelta |-> IF pattern = "inbound" THEN t.delta ELSE Null]
     /\ UNCHANGED pattern

NextTrack ==
  \/ \E call \in LocalCalls(origin.kind) : TrackLocal(call)
  \/ \E d \in InboundDeltas(origin.kind) : TrackInbound(d)
  \/ TrackFlush

\* ---- two ReplicatedCounterMap replicas that exchange their deltas ---------
VARIABLES
  replica,  \* the ReplicatedCounterMap object of replica "A" and of "B"
  wire,     \* the flushed deltas on their way to each replica
  sum,      \* per key, the sum of the increments made on either replica
  touched,  \* the keys that increment or decrement was called with
  dirty,    \* the replicas with a local call since their last flush
  ops       \* the number of local calls made so far

convVars == <<replica, wire, sum, touched, dirty, ops>>

Replicas == {"A", "B"}
Other(r) == IF r = "A" THEN "B" ELSE "A"

InitConv ==
  /\ replica = [r \in Replicas |-> NewCounterMap]
  /\ wire = [r \in Replicas |-> <<>>]
  /\ sum = [k \in Keys |-> 0]
  /\ touched = {}
  /\ dirty = {}
  /\ ops = 0

\* user code on replica r calls increment(k, n)
ReplicaIncrement(r, k, n) ==
  /\ ops < MaxOps
  /\ replica' = [replica EXCEPT ![r] = CounterMapIncrement(@, k, n)]
  /\ sum' = [sum EXCEPT ![k] = @ + n]
  /\ touched' = touched \cup {k}
  /\ dirty' = dirty \cup {r}
  /\ ops' = ops + 1
  /\ UNCHANGED wire

\* user code on replica r calls decrement(k, n)
ReplicaDecrement(r, k, n) ==
  /\ ops < MaxOps
  /\ replica' = [replica EXCEPT ![r] = CounterMapDecrement(@, k, n)]
  /\ sum' = [sum EXCEPT ![k] = @ - n]
  /\ touched' = touched \cup {k}
  /\ dirty' = dirty \cup {r}
  /\ ops' = ops + 1
  /\ UNCHANGED wire

\* the host of replica r takes its delta and sends it to the other replica
ReplicaFlush(r) ==
  LET f == CounterMapGetAndResetDelta(replica[r], FALSE) IN
  /\ r \in dirty
  /\ replica' = [replica EXCEPT ![r] = f.state]
  /\ wire' = IF f.delta = Null THEN wire
             ELSE [wire EXCEPT ![Other(r)] = Append(@, f.delta)]
  /\ dirty' = dirty \ {r}
  /\ UNCHANGED <<sum, touched, ops>>

\* replica r applies one of the deltas sent to it, in any order
ReplicaDeliver(r, i) ==
  /\ i \in DOMAIN wire[r]
  /\ replica' = [replica EXCEPT ![r] = CounterMapApplyDelta(@, wire[r][i]).state]
  /\ wire' = [wire EXCEPT ![r] =
                SubSeq(@, 1, i - 1) \o SubSeq(@, i + 1, Len(@))]
  /\ UNCHANGED <<sum, touched, dirty, ops>>

NextConv ==
  \/ \E r \in Replicas, k \in Keys, n \in Incs : ReplicaIncrement(r, k, n)
  \/ \E r \in Replicas, k \in Keys, n \in Incs : ReplicaDecrement(r, k, n)
  \/ \E r \in Replicas : ReplicaFlush(r)
  \/ \E r \in Replicas, i \in 1..MaxOps : ReplicaDeliver(r, i)

\* ---- the host's command loops, one per entity id -------------------------
VARIABLES
  arrived,   \* per entity id, the commands received so far, in arrival order
  queue,     \* per entity id, the commands waiting for its command loop
  handling,  \* per entity id, the commands whose result has not settled
  handled,   \* per entity id, the commands in the order the handler got them
  replies    \* per entity id, the replies in the order they were emitted

hostVars == <<arrived, queue, handling, handled, replies>>

\* an entity stands for one (service, entity id) pair
Entities == 1..MaxEntities

InitHost ==
  /\ arrived = [e \in Entities |-> <<>>]
  /\ queue = [e \in Entities |-> <<>>]
  /\ handling = [e \in Entities |-> {}]
  /\ handled = [e \in Entities |-> <<>>]
  /\ replies = [e \in Entities |-> <<>>]

\* a command loop that starts a command while another one is in flight
MayStartAnyTime(e) == queue[e] # <<>>

\* the command loop of e waits for the result of its current command
MayStart(e) == queue[e] # <<>> /\ handling[e] = {}

\* a command loop that takes the newest command of the queue
NextCommandNewest(q) == q[Len(q)]

\* the command loop takes the oldest command of the queue
NextCommand(q) == Head(q)

Dequeued(q, c) == SelectSeq(q, LAMBDA x : x # c)

\* the receive task puts the next command for entity e into e's queue
Receive(e) ==
  /\ Len(arrived[e]) < MaxCommands
  /\ Len(queue[e]) < MaxQueue
  /\ LET c == Len(arrived[e]) + 1 IN
     /\ arrived' = [arrived EXCEPT ![e] = Append(@, c)]
     /\ queue' = [queue EXCEPT ![e] = Append(@, c)]
  /\ UNCHANGED <<handling, handled, replies>>

\* the command loop of e hands its next command to the handler, which
\* returns a result: the reply is emitted at once
HandleCommand(e) ==
  /\ MayStart(e)
  /\ LET c == NextCommand(queue[e]) IN
     /\ queue' = [queue EXCEPT ![e] = Dequeued(@, c)]
     /\ handled' = [handled EXCEPT ![e] = Append(@, c)]
     /\ replies' = [replies EXCEPT ![e] = Append(@, c)]
  /\ UNCHANGED <<arrived, handling>>

\* the handler returns a deferred result: the command stays in flight
HandleCommandDeferred(e) ==
  /\ MayStart(e)
  /\ LET c == NextCommand(queue[e]) IN
     /\ queue' = [queue EXCEPT ![e] = Dequeued(@, c)]
     /\ handled' = [handled EXCEPT ![e] = Append(@, c)]
     /\ handling' = [handling EXCEPT ![e] = @ \cup {c}]
  /\ UNCHANGED <<arrived, replies>>

\* the deferred result of a command of e settles: its reply is emitted
Settle(e, c) ==
  /\ c \in handling[e]
  /\ handling' = [handling EXCEPT ![e] = @ \ {c}]
  /\ replies' = [replies EXCEPT ![e] = Append(@, c)]
  /\ UNCHANGED <<arrived, queue, handled>>

NextHost ==
  \/ \E e \in Entities : Receive(e)
  \/ \E e \in Entities : HandleCommand(e)
  \/ \E e \in Entities : HandleCommandDeferred(e)
  \/ \E e \in Entities, c \in 1..MaxCommands : Settle(e, c)

\* ---- specifications ------------------------------------------------------
\* ---- the factory: an instance is created for an inbound delta, which is
\* ---- then applied to it ----------------------------------------------------
VARIABLES
  envelope,  \* the inbound delta
  created,   \* what createForDelta(envelope) returned: Null before the call
  applied    \* what applyDelta of the instance returned: Null before the call

factoryVars == <<envelope, created, applied>>

\* delta envelopes of the three kinds whose classes are not modelled
OpaqueDeltas ==
  {[kind |-> k, body |-> [change |-> 0]] :
     k \in {"register", "replicatedRegisterMap", "vote"}}

Untagged == [kind |-> "untagged", body |-> [change |-> 0]]

\* map deltas that add one key twice
TwiceAdded ==
  {[kind |-> "replicatedMap",
    body |-> [cleared |-> FALSE, removed |-> <<>>, updated |-> <<>>,
              added |-> <<[key |-> Serialize(k), delta |-> d1],
                          [key |-> Serialize(k), delta |-> d2]>>]] :
     k \in Keys, d1 \in ValueDeltas, d2 \in ValueDeltas}

Envelopes ==
  UNION {InboundDeltas(kind) : kind \in CollectionKinds}
  \cup TwiceAdded \cup OpaqueDeltas \cup {Untagged}

\* instance.applyDelta(delta) for an instance of any kind
DataApplyDelta(c, d) ==
  IF c.kind \in CollectionKinds THEN applyDelta(c, d)
  ELSE ValueApplyDelta(c, d)

InitFactory ==
  /\ envelope \in Envelopes
  /\ created = Null
  /\ applied = Null

IdleFactory ==
  /\ envelope = Untagged
  /\ created = Null
  /\ applied = Null

CreateForDelta ==
  /\ created = Null
  /\ created' = createForDelta(envelope)
  /\ UNCHANGED <<envelope, applied>>

\* the caller applies the delta to the instance it got
ApplyToCreated ==
  /\ created # Null /\ created.error = ""
  /\ applied = Null
  /\ applied' = DataApplyDelta(created.state, envelope)
  /\ UNCHANGED <<envelope, created>>

NextFactory == CreateForDelta \/ ApplyToCreated

\* ---- a mocked Value Entity whose command handler is the TCK model's
\* ---- process ---------------------------------------------------------------
VARIABLES
  state,     \* MockValueEntity.state: the value field of the Persisted message
  error,     \* MockValueEntity.error
  result,    \* what the last handleCommand returned
  reply,     \* the Reply the handler returned to the last handleCommand
  lastCmd    \* of the last command: the state before it, whether its actions
             \* updated or deleted the state, whether its reply is a failure

valueEntityVars == <<state, error, result, reply, lastCmd>>

\* undefined, for a field that holds a string otherwise
Undefined == "undefined"
Truthy(v) == v \notin {"", Undefined}

\* the values of update actions, the ids of forwards and effects, the
\* messages of failures
Values == {"", "a", "b"}
Ids == {"one"}
Messages == {"", "failed"}

\* request.actions: each action has one of update, delete, forward, effect,
\* fail set
Actions ==
  {[kind |-> "update", arg |-> v] : v \in Values}
  \cup {[kind |-> "delete", arg |-> ""]}
  \cup {[kind |-> k, arg |-> id] : k \in {"forward", "effect"}, id \in Ids}
  \cup {[kind |-> "fail", arg |-> m] : m \in Messages}

Requests == SeqsUpTo(Actions, MaxActions)

\* entity.initial(entityId): Persisted.create()
Initial == ""

\* the constructors of Reply: each sets one of message, forward and failure
NoReply == [message |-> <<>>, forward |-> <<>>, failure |-> <<>>,
            effects |-> <<>>]
ReplyMessage(m) == [NoReply EXCEPT !.message = <<m>>]
ReplyForward(id) == [NoReply EXCEPT !.forward = <<id>>]
ReplyFailure(description) == [NoReply EXCEPT !.failure = <<description>>]
AddEffects(r, effects) == [r EXCEPT !.effects = @ \o effects]

\* new MockValueEntityCommandContext(); updatedState holds a reference to the
\* state object the handler was given, or nothing
NewValueEntityContext == [updatedState |-> FALSE, delete |-> FALSE,
                          error |-> Undefined]

\* Response.create(state.value ? { message: state.value } : {})
Response(value) == IF Truthy(value) THEN value ELSE ""

\* the run of process over the actions: value is the value field of the state
\* object it was given, which it writes in place
InitialRun(value) ==
  [value |-> value, context |-> NewValueEntityContext, reply |-> NoReply,
   replied |-> FALSE, effects |-> <<>>]

\* a process whose reply keeps the message next to a forward
ProcessActionKeepsMessage(run, action) ==
  IF action.kind = "update"
  THEN [run EXCEPT !.value = action.arg, !.context.updatedState = TRUE]
  ELSE IF action.kind = "delete"
  THEN [run EXCEPT !.value = Undefined, !.context.delete = TRUE]
  ELSE IF action.kind = "forward"
  THEN [run EXCEPT !.reply = [ReplyMessage(Response(run.value))
                                EXCEPT !.forward = <<action.arg>>],
                   !.replied = TRUE]
  ELSE IF action.kind = "effect"
  THEN [run EXCEPT !.effects = Append(@, action.arg)]
  ELSE [run EXCEPT !.reply = ReplyFailure(action.arg), !.replied = TRUE]

\* the body of request.actions.forEach
ProcessAction(run, action) ==
  IF action.kind = "update"
  THEN [run EXCEPT !.value = action.arg, !.context.updatedState = TRUE]
  ELSE IF action.kind = "delete"
  THEN [run EXCEPT !.value = Undefined, !.context.delete = TRUE]
  ELSE IF action.kind = "forward"
  THEN [run EXCEPT !.reply = ReplyForward(action.arg), !.replied = TRUE]
  ELSE IF action.kind = "effect"
  THEN [run EXCEPT !.effects = Append(@, action.arg)]
  ELSE [run EXCEPT !.reply = ReplyFailure(action.arg), !.replied = TRUE]

RECURSIVE ProcessActions(_, _)
ProcessActions(run, actions) ==
  IF actions = <<>> THEN run
  ELSE ProcessActions(ProcessAction(run, Head(actions)), Tail(actions))

Process(request, value) ==
  LET run == ProcessActions(InitialRun(value), request)
      r == IF run.replied THEN run.reply
           ELSE ReplyMessage(Response(run.value))
  IN [run EXCEPT !.reply = AddEffects(r, run.effects)]

\* reply.getMessage(): undefined for a reply without a message
GetMessage(r) == IF r.message = <<>> THEN Undefined ELSE r.message[1]

InitValueEntity ==
  /\ state = Initial
  /\ error = Undefined
  /\ result = Undefined
  /\ reply = NoReply
  /\ lastCmd = [before |-> Initial, changed |-> FALSE, failed |-> FALSE,
                handled |-> FALSE]

\* MockValueEntity.handleCommand('Process', request): the handler is given
\* this.state itself, so what it wrote to the object is in this.state and in
\* ctx.updatedState alike
ValueEntityHandleCommand(request) ==
  LET run == Process(request, state) IN
  /\ state' = IF run.context.delete THEN Initial
              ELSE IF run.context.updatedState THEN run.value
              ELSE run.value
  /\ error' = IF run.reply.failure # <<>> THEN run.reply.failure[1]
              ELSE run.context.error
  /\ result' = GetMessage(run.reply)
  /\ reply' = run.reply
  /\ lastCmd' = [before |-> state,
                 changed |-> run.context.delete \/ run.context.updatedState,
                 failed |-> run.reply.failure # <<>>,
                 handled |-> TRUE]

NextValueEntity == \E request \in Requests : ValueEntityHandleCommand(request)

\* ---- a mocked Value Entity whose state is a string and whose command
\* ---- handlers are user code: calls on the context, then a plain result ------
VARIABLES
  mockState,  \* MockValueEntity.state
  mockError,  \* MockValueEntity.error
  mockCmd     \* of the last command: the state before it, the calls of
              \* its handler and the context after the handler returned

mockVars == <<mockState, mockError, mockCmd>>

\* the states user code passes to updateState: the empty string is one
UserStates == {"", "a", "b"}

\* entity.initial(entityId) of this entity
MockInitial == "initial"

\* the calls of a handler on its MockValueEntityCommandContext
ContextCalls ==
  {[name |-> "updateState", arg |-> s] : s \in UserStates}
  \cup {[name |-> "deleteState", arg |-> ""]}
  \cup {[name |-> "fail", arg |-> "failed"]}

Handlers == SeqsUpTo(ContextCalls, MaxCalls)

\* updateState(state), deleteState(), fail(error)
ContextCall(ctx, call) ==
  IF call.name = "updateState" THEN [ctx EXCEPT !.updatedState = call.arg]
  ELSE IF call.name = "deleteState" THEN [ctx EXCEPT !.delete = TRUE]
  ELSE [ctx EXCEPT !.error = call.arg]

RECURSIVE RunHandler(_, _)
RunHandler(ctx, calls) ==
  IF calls = <<>> THEN ctx
  ELSE RunHandler(ContextCall(ctx, Head(calls)), Tail(calls))

\* new MockValueEntityCommandContext()
NewMockContext ==
  [updatedState |-> Undefined, delete |-> FALSE, error |-> Undefined]

\* if (ctx.delete) ... else if (ctx.updatedState) ...
AssignState(ctx, current) ==
  IF ctx.delete THEN MockInitial
  ELSE IF Truthy(ctx.updatedState) THEN ctx.updatedState
  ELSE current

InitMock ==
  /\ mockState = MockInitial
  /\ mockError = Undefined
  /\ mockCmd = [before |-> MockInitial, calls |-> <<>>,
                context |-> NewMockContext, handled |-> FALSE]

\* MockValueEntity.handleCommand with a handler that makes the calls and
\* returns a result that is not a Reply
MockHandleCommand(calls) ==
  LET ctx == RunHandler(NewMockContext, calls) IN
  /\ mockState' = AssignState(ctx, mockState)
  /\ mockError' = ctx.error
  /\ mockCmd' = [before |-> mockState, calls |-> calls,
                 context |-> ctx, handled |-> TRUE]

NextMock == \E calls \in Handlers : MockHandleCommand(calls)

\* ---- ContextFailure -------------------------------------------------------
VARIABLES
  failure,   \* what the last new ContextFailure(msg, grpcStatus) produced
  previous   \* what the one before it produced

failureVars == <<failure, previous>>

\* the last gRPC status code
LastGrpcStatus == 16

\* the optional grpcStatus argument: omitted, or a number
StatusCodes ==
  {<<>>} \cup {<<c>> : c \in (0 - MaxOutside)..(LastGrpcStatus + MaxOutside)}

\* nothing was constructed
NoFailure ==
  [thrown |-> "", name |-> Undefined, msg |-> Undefined, given |-> <<>>,
   grpcStatus |-> <<>>]

\* throw new Error(text), text ending with the code where the source appends it
ThrowError(text, msg, given) ==
  [thrown |-> text, name |-> "Error", msg |-> msg, given |-> given,
   grpcStatus |-> <<>>]

\* the constructor that takes every code but OK
ContextFailureAcceptsAll(msg, given) ==
  IF given # <<>> /\ given[1] = 0
  THEN ThrowError("gRPC failure status code must not be OK", msg, given)
  ELSE [thrown |-> "", name |-> "ContextFailure", msg |-> msg,
        given |-> given, grpcStatus |-> given]

\* new ContextFailure(msg, grpcStatus)
ContextFailure(msg, given) ==
  IF given # <<>>
  THEN IF given[1] = 0
       THEN ThrowError("gRPC failure status code must not be OK", msg, given)
       ELSE IF given[1] < 0 \/ given[1] > LastGrpcStatus
       THEN ThrowError("Invalid gRPC status code: ", msg, given)
       ELSE [thrown |-> "", name |-> "ContextFailure", msg |-> msg,
             given |-> given, grpcStatus |-> given]
  ELSE [thrown |-> "", name |-> "ContextFailure", msg |-> msg,
        given |-> given, grpcStatus |-> <<>>]

InitFailure ==
  /\ failure = NoFailure
  /\ previous = NoFailure

Construct(msg, given) ==
  /\ failure' = ContextFailure(msg, given)
  /\ previous' = failure

NextFailure ==
  \E msg \in Messages, given \in StatusCodes : Construct(msg, given)

\* ---- the discovery handler of one service ---------------------------------
VARIABLES
  components,  \* the components added, in the order of addComponent
  asked,       \* the last Discover: the proxy info and the components then
  calls,       \* what the last Discover did, in order: the preStart calls,
               \* then the return
  discovered   \* the response of the last Discover, if any

discoveryVars == <<components, asked, calls, discovered>>

EntityType == "kalix.component.valueentity.ValueEntities"
ActionType == "kalix.component.action.Actions"

HeaderSets == {{}, {"x-my-header"}}

\* entityPassivationStrategy: not configured, or a timeout
Passivations == {<<>>, <<10>>}

\* the components of the tests: an entity and an action
Components ==
  {[serviceName |-> "my-service", componentType |-> EntityType,
    entityType |-> "my-entity-type", forwardHeaders |-> h,
    entityPassivationStrategy |-> p] : h \in HeaderSets, p \in Passivations}
  \cup
  {[serviceName |-> "my-action", componentType |-> ActionType,
    entityType |-> Undefined, forwardHeaders |-> h,
    entityPassivationStrategy |-> <<>>] : h \in HeaderSets}

ProxyInfos ==
  {[proxyHostname |-> h, proxyPort |-> 9000] : h \in {"localhost", "proxy"}}

NoProxy == [proxyHostname |-> Undefined, proxyPort |-> 0]

\* the entry of a component that reports a passivation strategy always
EntryAlwaysPassivates(c) ==
  IF c.entityType # Undefined
  THEN [serviceName |-> c.serviceName, componentType |-> c.componentType,
        entity |-> <<[entityType |-> c.entityType,
                      passivationStrategy |-> <<10>>,
                      forwardHeaders |-> c.forwardHeaders]>>,
        component |-> <<>>]
  ELSE [serviceName |-> c.serviceName, componentType |-> c.componentType,
        entity |-> <<>>,
        component |-> <<[forwardHeaders |-> c.forwardHeaders]>>]

\* the entry of a component in the response: its entity settings if it has
\* an entity type, its generic settings otherwise
Entry(c) ==
  IF c.entityType # Undefined
  THEN [serviceName |-> c.serviceName, componentType |-> c.componentType,
        entity |-> <<[entityType |-> c.entityType,
                      passivationStrategy |-> c.entityPassivationStrategy,
                      forwardHeaders |-> c.forwardHeaders]>>,
        component |-> <<>>]
  ELSE [serviceName |-> c.serviceName, componentType |-> c.componentType,
        entity |-> <<>>,
        component |-> <<[forwardHeaders |-> c.forwardHeaders]>>]

\* component.preStart(settings) of the i-th component
PreStartCall(i, proxyInfo) ==
  [call |-> "preStart", component |-> i,
   proxyHostname |-> proxyInfo.proxyHostname]

ReturnCall == [call |-> "return", component |-> 0, proxyHostname |-> Undefined]

\* Discover that starts the first component only
DiscoverCallsStartFirst(registered, proxyInfo) ==
  [i \in 1..(IF registered = <<>> THEN 0 ELSE 1) |->
     PreStartCall(i, proxyInfo)] \o <<ReturnCall>>

\* Discover: preStart of every component, then the return
DiscoverCalls(registered, proxyInfo) ==
  [i \in 1..Len(registered) |-> PreStartCall(i, proxyInfo)]
    \o <<ReturnCall>>

InitDiscovery ==
  /\ components = <<>>
  /\ asked = [proxyInfo |-> NoProxy, components |-> <<>>]
  /\ calls = <<>>
  /\ discovered = <<>>

\* kalix.addComponent(component)
AddComponent(c) ==
  /\ Len(components) < MaxComponents
  /\ components' = Append(components, c)
  /\ UNCHANGED <<asked, calls, discovered>>

\* kalix.discoveryLogic(proxyInfo)
Discover(proxyInfo) ==
  /\ asked' = [proxyInfo |-> proxyInfo, components |-> components]
  /\ calls' = DiscoverCalls(components, proxyInfo)
  /\ discovered' = <<[components |->
                        [i \in 1..Len(components) |-> Entry(components[i])]]>>
  /\ UNCHANGED components

NextDiscovery ==
  \/ \E c \in Components : AddComponent(c)
  \/ \E proxyInfo \in ProxyInfos : Discover(proxyInfo)

\* ---- the effect serializer --------------------------------------------------
VARIABLES
  registered,  \* the names of the services the serializer was created with
  serialized,  \* the last serializeEffect: its method, what it returned or
               \* the error it threw
  collected    \* the effects serialized so far

serializerVars == <<registered, serialized, collected>>

\* the services of example.proto and their methods' input types
ServiceNames == {"com.example.ExampleService", "com.example.ExampleServiceTwo"}

MethodsOf(service) ==
  IF service = "com.example.ExampleService"
  THEN [name \in {"DoSomething"} |-> "com.example.In"]
  ELSE [name \in {"DoSomethingOne"} |-> "com.example.In"]

\* a method reference: a protobufjs reflection object (type 'rpc', parent,
\* name) or a generated gRPC stub (path '/service/method'); the stub's
\* members are lower camel case and its path holds the declared name
MethodRefs ==
  {[form |-> f, service |-> s, name |-> n] :
     f \in {"rpc", "path"}, s \in ServiceNames,
     n \in {"DoSomething", "DoSomethingOne"}}

\* the message values of the tests: In.create({field: ...})
EffectMessages == {"foo", "bar"}

\* the type URL of a message type
TypeUrl(type) == <<"type.googleapis.com", type>>

NoEffect ==
  [thrown |-> "", effect |-> <<>>, method |-> <<>>]

\* serializeEffect that looks the command up in every service of example.proto
SerializeEffectAnyService(services, method, message) ==
  IF method.name \in DOMAIN MethodsOf(method.service)
  THEN [thrown |-> "",
        effect |-> <<[serviceName |-> method.service,
                      commandName |-> method.name,
                      payload |-> [type_url |->
                                     TypeUrl(MethodsOf(method.service)[method.name]),
                                   value |-> message]]>>,
        method |-> <<method>>]
  ELSE [thrown |-> "MethodNotInService", effect |-> <<>>,
        method |-> <<method>>]

\* serializeEffect(method, message): the service of the method must be one
\* of the serializer's, the command one of that service
SerializeEffect(services, method, message) ==
  IF method.service \notin services
  THEN [thrown |-> "UnknownService", effect |-> <<>>, method |-> <<method>>]
  ELSE IF method.name \notin DOMAIN MethodsOf(method.service)
  THEN [thrown |-> "MethodNotInService", effect |-> <<>>,
        method |-> <<method>>]
  ELSE [thrown |-> "",
        effect |-> <<[serviceName |-> method.service,
                      commandName |-> method.name,
                      payload |-> [type_url |->
                                     TypeUrl(MethodsOf(method.service)[method.name]),
                                   value |-> message]]>>,
        method |-> <<method>>]

InitSerializer ==
  /\ registered = {}
  /\ serialized = NoEffect
  /\ collected = <<>>

\* new EffectSerializer(services)
NewEffectSerializer(services) ==
  /\ registered' = services
  /\ serialized' = NoEffect
  /\ collected' = <<>>

\* an effect is serialized and, unless that throws, collected
CallSerializeEffect(method, message) ==
  /\ Len(collected) < MaxEffects
  /\ serialized' = SerializeEffect(registered, method, message)
  /\ collected' = collected \o serialized'.effect
  /\ UNCHANGED registered

NextSerializer ==
  \/ \E services \in SUBSET ServiceNames : NewEffectSerializer(services)
  \/ \E method \in MethodRefs, message \in EffectMessages :
       CallSerializeEffect(method, message)

\* ---- the user presence entity: a Vote, connect and the streamed monitor ---
VARIABLES
  vote,     \* the entity's Vote with the users onStateSet adds to it
  streams,  \* per stream: open, the online of the handler's closure, the
            \* messages sent on it, the invocations of onStateChange and
            \* what the last one returned
  changed   \* whether the last step changed the state

presenceVars == <<vote, streams, changed>>

StreamIds == 1..MaxStreams

\* state.atLeastOne
AtLeastOne(v) == v.votesFor > 0

NoStream ==
  [open |-> FALSE, online |-> FALSE, sent |-> <<>>, invoked |-> 0,
   returned |-> <<>>]

InitPresence ==
  /\ vote = [selfVote |-> FALSE, votesFor |-> 0, users |-> 0]
  /\ streams = [s \in StreamIds |-> NoStream]
  /\ changed = FALSE

\* state.vote = value
SetVote(v, value) ==
  IF v.selfVote = value THEN v
  ELSE [v EXCEPT !.selfVote = value,
                 !.votesFor = IF value THEN @ + 1 ELSE @ - 1]

\* the callback of monitor that reports every state
OnStateChangeReportsAll(stream, v) ==
  [stream EXCEPT !.online = AtLeastOne(v),
                 !.returned = <<AtLeastOne(v)>>]

\* ctx.onStateChange of monitor, called with the state
OnStateChange(stream, v) ==
  IF stream.online # AtLeastOne(v)
  THEN [stream EXCEPT !.online = AtLeastOne(v),
                      !.returned = <<AtLeastOne(v)>>]
  ELSE [stream EXCEPT !.returned = <<>>]

\* the state changed: the callback of every open stream is invoked and what
\* it returns, unless undefined, is written to the stream
Notify(v) ==
  [s \in StreamIds |->
     IF ~streams[s].open THEN streams[s]
     ELSE LET after == OnStateChange(streams[s], v) IN
          [after EXCEPT !.invoked = @ + 1,
                        !.sent = @ \o after.returned]]

\* every open stream can be followed through one more state change
Followed == \A s \in StreamIds : streams[s].invoked < MaxInvoked

\* a local command or the cancellation of a connect stream left the Vote as v
LocalChange(v) ==
  /\ Followed
  /\ vote' = v
  /\ changed' = (v.selfVote # vote.selfVote)
  /\ streams' = IF changed' THEN Notify(v) ELSE streams

\* connect, streamed: state.connect()
Connect ==
  /\ vote.users < MaxUsers
  /\ vote.votesFor < MaxVoters \/ vote.selfVote
  /\ LET users == vote.users + 1 IN
     LocalChange([(IF users = 1 THEN SetVote(vote, TRUE) ELSE vote)
                    EXCEPT !.users = users])

\* the stream of a connect is cancelled: state.disconnect()
Disconnect ==
  /\ vote.users > 0
  /\ LET users == vote.users - 1 IN
     LocalChange([(IF users = 0 THEN SetVote(vote, FALSE) ELSE vote)
                    EXCEPT !.users = users])

\* a delta of the proxy with the tally of all nodes
InboundVote(votesFor) ==
  /\ Followed
  /\ votesFor >= (IF vote.selfVote THEN 1 ELSE 0)
  /\ vote' = [vote EXCEPT !.votesFor = votesFor]
  /\ changed' = TRUE
  /\ streams' = Notify(vote')

\* monitor, streamed: the reply is the first message of the stream
Monitor(s) ==
  /\ ~streams[s].open
  /\ streams' = [streams EXCEPT ![s] =
                   [open |-> TRUE, online |-> AtLeastOne(vote),
                    sent |-> <<AtLeastOne(vote)>>, invoked |-> 0,
                    returned |-> <<>>]]
  /\ changed' = FALSE
  /\ UNCHANGED vote

\* the proxy closes the stream of a monitor
StreamCancelled(s) ==
  /\ streams[s].open
  /\ streams' = [streams EXCEPT ![s] = NoStream]
  /\ changed' = FALSE
  /\ UNCHANGED vote

NextPresence ==
  \/ Connect
  \/ Disconnect
  \/ \E votesFor \in 0..MaxVoters : InboundVote(votesFor)
  \/ \E s \in StreamIds : Monitor(s)
  \/ \E s \in StreamIds : StreamCancelled(s)

\* ---- the integration testkit: start, shutdown, and the user-function
\* ---- server it shuts down ----------------------------------------------------
VARIABLES
  testkit,    \* phase: how far asyncStart got; proxyContainer: the field,
              \* "undefined" until the container has started; clients: the
              \* component clients are open; server: the user-function
              \* server; inflight: its command loops in flight
  shutdowns   \* one record for each call of shutdown(callback)

shutdownVars == <<testkit, shutdowns>>

\* the error proxyContainer.stop() rejects with, and the one the server's
\* tryShutdown may pass to its callback
StopError == "stop failed"
ServerError == "server error"

InitShutdown ==
  /\ testkit = [phase |-> "new", proxyContainer |-> "undefined",
                clients |-> FALSE, server |-> "idle", inflight |-> 0]
  /\ shutdowns = <<>>

\* const boundPort = await this.kalix.start({ port: 0 })
StartServer ==
  /\ testkit.phase = "new"
  /\ testkit' = [testkit EXCEPT !.phase = "server", !.server = "serving"]
  /\ UNCHANGED shutdowns

\* asyncStart rejects before the container has started
StartFails ==
  /\ testkit.phase \in {"new", "server"}
  /\ testkit' = [testkit EXCEPT !.phase = "failed"]
  /\ UNCHANGED shutdowns

\* the container has started: this.proxyContainer, this.componentClients
StartContainer ==
  /\ testkit.phase = "server"
  /\ testkit' = [testkit EXCEPT !.phase = "ready",
                                !.proxyContainer = "running",
                                !.clients = TRUE]
  /\ UNCHANGED shutdowns

\* the proxy opens a stream, whose command loop is then in flight
OpenStream ==
  /\ testkit.server = "serving"
  /\ testkit.proxyContainer = "running"
  /\ testkit.inflight < MaxInflight
  /\ testkit' = [testkit EXCEPT !.inflight = @ + 1]
  /\ UNCHANGED shutdowns

\* a command loop in flight drains
StreamDrains ==
  /\ testkit.inflight > 0
  /\ testkit' = [testkit EXCEPT !.inflight = @ - 1]
  /\ UNCHANGED shutdowns

\* shutdown(callback) up to proxyContainerStopped.then(...): the clients are
\* closed and proxyContainerStopped is the promise of stop(), or resolved
Shutdown ==
  /\ Len(shutdowns) < MaxShutdowns
  /\ testkit' = [testkit EXCEPT !.clients = FALSE]
  /\ shutdowns' =
       Append(shutdowns,
              [container |-> testkit.proxyContainer # "undefined",
               proxyContainerStopped |->
                 IF testkit.proxyContainer # "undefined" THEN "pending"
                 ELSE "fulfilled",
               reacted |-> FALSE,
               tryShutdown |-> 0,
               wrapped |-> FALSE,
               callback |-> "none",
               arg |-> Undefined])

\* the promise of proxyContainer.stop() settles
StopSettles(i, outcome) ==
  /\ i \in DOMAIN shutdowns
  /\ shutdowns[i].proxyContainerStopped = "pending"
  /\ shutdowns' = [shutdowns EXCEPT ![i].proxyContainerStopped = outcome]
  /\ testkit' = IF outcome = "fulfilled"
                THEN [testkit EXCEPT !.proxyContainer = "stopped"]
                ELSE testkit

\* a reaction that shuts the server down only when stop() succeeded
OnSettledDropsFailure(s) ==
  IF s.proxyContainerStopped = "fulfilled"
  THEN [s EXCEPT !.reacted = TRUE, !.tryShutdown = @ + 1,
                 !.callback = "pending"]
  ELSE [s EXCEPT !.reacted = TRUE]

\* the reaction of proxyContainerStopped.then(onFulfilled, onRejected):
\* this.kalix.tryShutdown(callback) or tryShutdown(() => callback(err))
OnSettled(s) ==
  IF s.proxyContainerStopped = "fulfilled"
  THEN [s EXCEPT !.reacted = TRUE, !.tryShutdown = @ + 1,
                 !.callback = "pending"]
  ELSE [s EXCEPT !.reacted = TRUE, !.tryShutdown = @ + 1,
                 !.callback = "pending", !.wrapped = TRUE]

\* the reaction runs once the promise has settled; tryShutdown stops the
\* server from accepting new streams
Settled(i) ==
  /\ i \in DOMAIN shutdowns
  /\ shutdowns[i].proxyContainerStopped # "pending"
  /\ ~shutdowns[i].reacted
  /\ shutdowns' = [shutdowns EXCEPT ![i] = OnSettled(@)]
  /\ testkit' = IF shutdowns'[i].tryShutdown > shutdowns[i].tryShutdown
                   /\ testkit.server = "serving"
                THEN [testkit EXCEPT !.server = "quiescing"]
                ELSE testkit

\* the command loops in flight have drained: the gRPC server closes
ServerCloses ==
  /\ testkit.server = "quiescing"
  /\ testkit.inflight = 0
  /\ testkit' = [testkit EXCEPT !.server = "closed"]
  /\ UNCHANGED shutdowns

\* tryShutdown invokes the callback it was given, which is the shutdown
\* callback or the wrapper that passes it the error of stop()
CallbackInvoked(i, r) ==
  /\ i \in DOMAIN shutdowns
  /\ shutdowns[i].callback = "pending"
  /\ testkit.server \in {"idle", "closed"}
  /\ shutdowns' = [shutdowns EXCEPT
                     ![i].callback = "invoked",
                     ![i].arg = IF shutdowns[i].wrapped THEN StopError
                                ELSE r]
  /\ UNCHANGED testkit

NextShutdown ==
  \/ StartServer
  \/ StartFails
  \/ StartContainer
  \/ OpenStream
  \/ StreamDrains
  \/ Shutdown
  \/ \E i \in 1..MaxShutdowns, outcome \in {"fulfilled", "rejected"} :
       StopSettles(i, outcome)
  \/ \E i \in 1..MaxShutdowns : Settled(i)
  \/ ServerCloses
  \/ \E i \in 1..MaxShutdowns, r \in {Undefined, ServerError} :
       CallbackInvoked(i, r)

\* ---- gRPC clients made by GrpcUtil.clientCreators ---------------------------
\* A string is the sequence of its characters, and the address <<>> stands
\* for '' and for no address alike, which the code does not tell apart. A
\* grpc.Metadata object is the set of its <<key, value>> pairs; an optional
\* one is <<>> or <<the object>>.
VARIABLES
  identificationInfo,  \* what the proxy sent, Null when it sent none
  client,              \* the client createClient returned last
  metadata,            \* a grpc.Metadata object of user code, which it may
                       \* pass to any number of calls
  outgoing             \* the last service call as the channel got it

clientVars == <<identificationInfo, client, metadata, outgoing>>

Chars == {"p", "s", ".", ":"}
ProxyHostname == <<"p">>
ProxyPort == <<"9">>

\* the address argument of createClient: none, or a string
Addresses == SeqsUpTo(Chars, MaxAddress)

\* address.indexOf(c): the first position of c, counted from 0, or -1
IndexOf(address, c) ==
  LET at == {i \in 1..Len(address) : address[i] = c} IN
  IF at = {} THEN 0 - 1
  ELSE (CHOOSE i \in at : \A j \in at : i <= j) - 1

\* address.startsWith(prefix)
StartsWith(address, prefix) ==
  /\ Len(prefix) <= Len(address)
  /\ SubSeq(address, 1, Len(prefix)) = prefix

\* the identification info of a proxy: header names may be empty
IdentificationInfos ==
  {Null}
  \cup {[selfIdentificationHeader |-> a, serviceIdentificationHeader |-> b] :
          a \in {"", "X-Self"}, b \in {"", "X-Service"}}

\* selfAuthHeaders and otherKalixServiceAuthHeaders: undefined, or a Metadata
\* object with the one header
SelfHeader == <<"X-Self", "selfIdentificationToken">>
ServiceHeader == <<"X-Service", "selfDeploymentName">>
SelfAuthHeaders(info) ==
  IF info # Null /\ info.selfIdentificationHeader # ""
  THEN <<{SelfHeader}>> ELSE <<>>
OtherKalixServiceAuthHeaders(info) ==
  IF info # Null /\ info.serviceIdentificationHeader # ""
  THEN <<{ServiceHeader}>> ELSE <<>>

\* if (address) { ... } else { ... }: the kind of target
ServiceType(address) ==
  IF address # <<>>
  THEN IF IndexOf(address, ".") > 0 THEN "EXTERNAL"
       ELSE IF StartsWith(address, ProxyHostname) THEN "SELF"
       ELSE "KALIX_SERVICE"
  ELSE "SELF"

ActualAddress(address) ==
  IF address # <<>>
  THEN IF ServiceType(address) = "KALIX_SERVICE"
          /\ ~(IndexOf(address, ":") > 0)
       THEN address \o <<":", "8", "0">>
       ELSE address
  ELSE ProxyHostname \o <<":">> \o ProxyPort

\* the headers addHeadersToAllRequests is called with for the new client,
\* none when it is not called
ClientHeaders(info, address) ==
  IF info = Null THEN <<>>
  ELSE IF ServiceType(address) = "SELF" THEN SelfAuthHeaders(info)
  ELSE IF ServiceType(address) = "KALIX_SERVICE"
  THEN OtherKalixServiceAuthHeaders(info)
  ELSE <<>>

\* clientCreator(address)
ClientCreator(info, address) ==
  [given |-> address,
   address |-> ActualAddress(address),
   serviceType |-> ServiceType(address),
   headers |-> ClientHeaders(info, address)]

\* a service call on the client with the optional Metadata argument meta:
\* what the channel gets, and meta afterwards. The patched method passes
\* its own Metadata when the call has none, and merges its headers into the
\* one of the call otherwise
ServiceCall(c, meta) ==
  IF c.headers = <<>>
  THEN [sent |-> IF meta = <<>> THEN {} ELSE meta[1], meta |-> meta]
  ELSE IF meta = <<>>
  THEN [sent |-> c.headers[1], meta |-> meta]
  ELSE [sent |-> meta[1] \cup c.headers[1],
        meta |-> <<meta[1] \cup c.headers[1]>>]

\* a Metadata object as user code makes it
UserMetadata == {<<"x-trace", "1">>}

NoClient ==
  [given |-> <<>>, address |-> <<>>, serviceType |-> "none",
   headers |-> <<>>]
NoRequest == [given |-> <<>>, address |-> <<>>, sent |-> {}, made |-> FALSE]

\* GrpcUtil.clientCreators(namespace, grpcObject, proxyHostname, proxyPort,
\* identificationInfo)
InitClients ==
  /\ identificationInfo \in IdentificationInfos
  /\ client = NoClient
  /\ metadata = UserMetadata
  /\ outgoing = NoRequest

IdleClients ==
  /\ identificationInfo = Null
  /\ client = NoClient
  /\ metadata = UserMetadata
  /\ outgoing = NoRequest

CreateClient(address) ==
  /\ client' = ClientCreator(identificationInfo, address)
  /\ UNCHANGED <<identificationInfo, metadata, outgoing>>

\* user code calls a method of the client, with its Metadata object or none
CallService(withMetadata) ==
  /\ client # NoClient
  /\ LET r == ServiceCall(client,
                          IF withMetadata THEN <<metadata>> ELSE <<>>)
     IN /\ outgoing' = [given |-> client.given, address |-> client.address,
                       sent |-> r.sent, made |-> TRUE]
        /\ metadata' = IF withMetadata THEN r.meta[1] ELSE metadata
  /\ UNCHANGED <<identificationInfo, client>>

\* user code makes a new Metadata object
NewMetadata ==
  /\ metadata' = UserMetadata
  /\ UNCHANGED <<identificationInfo, client, outgoing>>

NextClients ==
  \/ \E address \in Addresses : CreateClient(address)
  \/ \E withMetadata \in BOOLEAN : CallService(withMetadata)
  \/ NewMetadata

\* ---- a mocked Event Sourced Entity whose behavior is the TCK model's:
\* ---- command handler process, event handler persisted ----------------------
VARIABLES
  esState,   \* MockEventSourcedEntity.state: the value field of Persisted, a
             \* string, as the sequence of its characters
  events,    \* MockEventSourcedEntity.events: the event log
  esError,   \* MockEventSourcedEntity.error
  esReply,   \* the Reply the handler returned to the last handleCommand
  lastEmit   \* of the last command: the state and the log before it, whether
             \* its actions emitted an event, whether its reply is a failure

eventSourcedVars == <<esState, events, esError, esReply, lastEmit>>

\* the values of emit actions
EventValues == {<<>>, <<"a">>}

EmitActions ==
  {[kind |-> "emit", arg |-> v] : v \in EventValues}
  \cup {[kind |-> k, arg |-> id] : k \in {"forward", "effect"}, id \in Ids}
  \cup {[kind |-> "fail", arg |-> m] : m \in Messages}

EmitRequests == SeqsUpTo(EmitActions, MaxEmits)

\* persisted(event, state): if (event.value) state.value += event.value
Persisted(event, value) == IF event # <<>> THEN value \o event ELSE value

\* Response.create(state.value ? { message: state.value } : {})
EsResponse(value) == value

\* the run of process over the actions: value is the value field of the state
\* object it was given, which persisted writes in place
EsInitialRun(value) ==
  [value |-> value, events |-> <<>>, error |-> Undefined,
   reply |-> NoReply, replied |-> FALSE, effects |-> <<>>]

\* the body of request.actions.forEach
EsProcessAction(run, action) ==
  IF action.kind = "emit"
  THEN [run EXCEPT !.events = Append(@, action.arg),
                   !.value = Persisted(action.arg, @)]
  ELSE IF action.kind = "forward"
  THEN [run EXCEPT !.reply = ReplyForward(action.arg), !.replied = TRUE]
  ELSE IF action.kind = "effect"
  THEN [run EXCEPT !.effects = Append(@, action.arg)]
  ELSE [run EXCEPT !.reply = ReplyFailure(action.arg), !.replied = TRUE]

RECURSIVE EsProcessActions(_, _)
EsProcessActions(run, actions) ==
  IF actions = <<>> THEN run
  ELSE EsProcessActions(EsProcessAction(run, Head(actions)), Tail(actions))

EsProcess(request, value) ==
  LET run == EsProcessActions(EsInitialRun(value), request)
      r == IF run.replied THEN run.reply
           ELSE ReplyMessage(EsResponse(run.value))
  IN [run EXCEPT !.reply = AddEffects(r, run.effects)]

\* MockEventSourcedEntity.handleEvent for each of the events, in order
RECURSIVE HandleEvents(_, _)
HandleEvents(entity, emitted) ==
  IF emitted = <<>> THEN entity
  ELSE HandleEvents([state |-> Persisted(Head(emitted), entity.state),
                     events |-> Append(entity.events, Head(emitted))],
                    Tail(emitted))

InitEventSourced ==
  /\ esState = <<>>
  /\ events = <<>>
  /\ esError = Undefined
  /\ esReply = NoReply
  /\ lastEmit = [state |-> <<>>, events |-> <<>>, emitted |-> FALSE,
                 failed |-> FALSE, handled |-> FALSE]

\* MockEventSourcedEntity.handleCommand('Process', request): the handler is
\* given this.state itself, so what persisted wrote to the object during the
\* handler is in this.state when the emitted events are handled
EventSourcedHandleCommand(request) ==
  LET run == EsProcess(request, esState)
      entity == HandleEvents([state |-> run.value, events |-> events],
                             run.events)
  IN /\ Len(entity.events) <= MaxEvents
     /\ esState' = entity.state
     /\ events' = entity.events
     /\ esError' = IF run.reply.failure # <<>> THEN run.reply.failure[1]
                   ELSE run.error
     /\ esReply' = run.reply
     /\ lastEmit' = [state |-> esState, events |-> events,
                     emitted |-> run.events # <<>>,
                     failed |-> run.reply.failure # <<>>,
                     handled |-> TRUE]

NextEventSourced ==
  \E request \in EmitRequests : EventSourcedHandleCommand(request)

\* ---- the Event Sourced handler of one entity instance under init, event
\* ---- and command frames, its commands handled by the TCK model's process ---
VARIABLES
  phase,     \* "Init", "ReplayingEvents" or "Ready"
  sequence,  \* the sequence number of the entity
  memory,    \* the in-memory state: the value field of Persisted
  outbound,  \* the outbound reply to the last command
  frames     \* init: the sequence number of the init frame; replayed,
             \* emitted: the events replayed and emitted since then; before:
             \* the sequence number before the last frame; frame: its kind

handlerVars == <<phase, sequence, memory, outbound, frames>>

NoOutbound ==
  [reply |-> NoReply, events |-> <<>>, snapshot |-> <<>>]

\* the snapshots and sequence numbers of init frames
Snapshots == {<<>>, <<<<"a">>>>}
InitSequences == 0..MaxInitSequence

InitHandler ==
  /\ phase = "Init"
  /\ sequence = 0
  /\ memory = <<>>
  /\ outbound = NoOutbound
  /\ frames = [init |-> 0, replayed |-> 0, emitted |-> 0, before |-> 0,
               frame |-> "none"]

\* Init { entity_id, snapshot?, sequence }
HandleInit(snapshot, seq) ==
  /\ phase = "Init"
  /\ phase' = "ReplayingEvents"
  /\ sequence' = seq
  /\ memory' = IF snapshot = <<>> THEN <<>> ELSE snapshot[1]
  /\ outbound' = NoOutbound
  /\ frames' = [init |-> seq, replayed |-> 0, emitted |-> 0,
                before |-> sequence, frame |-> "init"]

\* an Event frame: the event is applied by its handler
HandleEvent(event) ==
  /\ phase = "ReplayingEvents"
  /\ sequence < MaxSequence
  /\ memory' = Persisted(event, memory)
  /\ sequence' = sequence + 1
  /\ frames' = [frames EXCEPT !.replayed = @ + 1, !.before = sequence,
                              !.frame = "event"]
  /\ UNCHANGED <<phase, outbound>>

\* an emit that leaves the sequence number as it is
EmitKeepsSequence(h, event) ==
  [h EXCEPT !.events = Append(@, event),
            !.state = Persisted(event, @),
            !.snapshot = @ \/ (h.sequence + 1) % SnapshotEvery = 0]

\* an emit that looks at the sequence number before it has counted the event
EmitSnapshotsEarly(h, event) ==
  [h EXCEPT !.events = Append(@, event),
            !.state = Persisted(event, @),
            !.sequence = @ + 1,
            !.snapshot = @ \/ h.sequence % SnapshotEvery = 0]

\* emit(event): appends the event to the outbound reply, feeds it through the
\* event handler, increments the sequence
Emit(h, event) ==
  [h EXCEPT !.events = Append(@, event),
            !.state = Persisted(event, @),
            !.sequence = @ + 1,
            !.snapshot = @ \/ (h.sequence + 1) % SnapshotEvery = 0]

RECURSIVE EmitAll(_, _)
EmitAll(h, emitted) ==
  IF emitted = <<>> THEN h
  ELSE EmitAll(Emit(h, Head(emitted)), Tail(emitted))

\* a Command frame: a failure discards the emits of the command
HandleEsCommand(request) ==
  LET run == EsProcess(request, memory)
      h == EmitAll([events |-> <<>>, state |-> memory,
                    sequence |-> sequence, snapshot |-> FALSE], run.events)
      failed == run.reply.failure # <<>>
  IN /\ phase \in {"ReplayingEvents", "Ready"}
     /\ h.sequence <= MaxSequence
     /\ phase' = "Ready"
     /\ memory' = IF failed THEN memory ELSE h.state
     /\ sequence' = IF failed THEN sequence ELSE h.sequence
     /\ outbound' =
          IF failed THEN [NoOutbound EXCEPT !.reply = run.reply]
          ELSE [reply |-> run.reply, events |-> h.events,
                snapshot |-> IF h.snapshot THEN <<h.state>> ELSE <<>>]
     /\ frames' = [frames EXCEPT
                     !.emitted = IF failed THEN @ ELSE @ + Len(h.events),
                     !.before = sequence, !.frame = "command"]

NextHandler ==
  \/ \E snapshot \in Snapshots, seq \in InitSequences :
       HandleInit(snapshot, seq)
  \/ \E event \in EventValues : HandleEvent(event)
  \/ \E request \in EmitRequests : HandleEsCommand(request)

vars == <<crdt, watch, op, ret, hist, scen, replica, wire, sum, touched,
          dirty, ops, arrived, queue, handling, handled, replies,
          envelope, created, applied, state, error, result, reply, lastCmd,
          esState, events, esError, esReply, lastEmit,
          phase, sequence, memory, outbound, frames,
          mockState, mockError, mockCmd, vote, streams, changed,
          failure, previous, components, asked, calls, discovered,
          registered, serialized, collected,
          origin, mirror, twin, pattern, track,
          testkit, shutdowns,
          identificationInfo, client, metadata, outgoing>>

\* the entities as constructed
entityVars == <<valueEntityVars, eventSourcedVars, handlerVars>>
IdleEntities == InitValueEntity /\ InitEventSourced /\ InitHandler

\* the testkit and the gRPC clients
lastVars == <<shutdownVars, clientVars>>
IdleLast == InitShutdown /\ IdleClients

\* everything but the replicated collection
otherVars ==
  <<mockVars, presenceVars, failureVars, discoveryVars, serializerVars,
    trackVars, lastVars>>
laterVars ==
  <<mockVars, presenceVars, failureVars, discoveryVars, serializerVars>>
IdleLater ==
  /\ InitMock /\ InitPresence /\ InitFailure /\ InitDiscovery
  /\ InitSerializer
IdleOthers == IdleLater /\ IdleTrack /\ IdleLast

\* no collection is under test
IdleCrdt ==
  /\ crdt = NewSet
  /\ watch = "none"
  /\ op = Call("new")
  /\ ret = Returned
  /\ hist = [used |-> FALSE, local |-> FALSE, inbound |-> FALSE,
             consecutive |-> FALSE, opened |-> FALSE, prevKeys |-> {}]
  /\ scen = NoScen

\* one collection under local calls, flushes and inbound deltas
Init == InitCrdt /\ InitConv /\ InitHost /\ IdleFactory /\ IdleEntities /\ IdleOthers
Next ==
  /\ NextCrdt
  /\ UNCHANGED convVars /\ UNCHANGED hostVars /\ UNCHANGED factoryVars
  /\ UNCHANGED entityVars
  /\ UNCHANGED otherVars
Spec == Init /\ [][Next]_vars

\* two counter map replicas
ConvInit ==
  IdleCrdt /\ InitConv /\ InitHost /\ IdleFactory /\ IdleEntities /\ IdleOthers
ConvNext ==
  /\ NextConv
  /\ UNCHANGED crdtVars /\ UNCHANGED hostVars /\ UNCHANGED factoryVars
  /\ UNCHANGED entityVars
  /\ UNCHANGED otherVars
SpecConv == ConvInit /\ [][ConvNext]_vars

\* the command loops
HostInit ==
  IdleCrdt /\ InitConv /\ InitHost /\ IdleFactory /\ IdleEntities /\ IdleOthers
HostNext ==
  /\ NextHost
  /\ UNCHANGED crdtVars /\ UNCHANGED convVars /\ UNCHANGED factoryVars
  /\ UNCHANGED entityVars
  /\ UNCHANGED otherVars
SpecHost == HostInit /\ [][HostNext]_vars

\* the factory on one inbound delta
FactoryInit ==
  IdleCrdt /\ InitConv /\ InitHost /\ InitFactory /\ IdleEntities /\ IdleOthers
FactoryNext ==
  /\ NextFactory
  /\ UNCHANGED crdtVars /\ UNCHANGED convVars /\ UNCHANGED hostVars
  /\ UNCHANGED entityVars
  /\ UNCHANGED otherVars
SpecFactory == FactoryInit /\ [][FactoryNext]_vars

\* the mocked Value Entity under commands
ValueEntityInit ==
  IdleCrdt /\ InitConv /\ InitHost /\ IdleFactory /\ IdleEntities /\ IdleOthers
ValueEntityNext ==
  /\ NextValueEntity
  /\ UNCHANGED crdtVars /\ UNCHANGED convVars /\ UNCHANGED hostVars
  /\ UNCHANGED factoryVars /\ UNCHANGED eventSourcedVars
  /\ UNCHANGED handlerVars
  /\ UNCHANGED otherVars
SpecValueEntity == ValueEntityInit /\ [][ValueEntityNext]_vars

\* the mocked Event Sourced Entity under commands
EventSourcedInit ==
  IdleCrdt /\ InitConv /\ InitHost /\ IdleFactory /\ IdleEntities /\ IdleOthers
EventSourcedNext ==
  /\ NextEventSourced
  /\ UNCHANGED crdtVars /\ UNCHANGED convVars /\ UNCHANGED hostVars
  /\ UNCHANGED factoryVars /\ UNCHANGED valueEntityVars
  /\ UNCHANGED handlerVars
  /\ UNCHANGED otherVars
SpecEventSourced == EventSourcedInit /\ [][EventSourcedNext]_vars

\* the Event Sourced handler under frames
HandlerInit ==
  IdleCrdt /\ InitConv /\ InitHost /\ IdleFactory /\ IdleEntities /\ IdleOthers
HandlerNext ==
  /\ NextHandler
  /\ UNCHANGED crdtVars /\ UNCHANGED convVars /\ UNCHANGED hostVars
  /\ UNCHANGED factoryVars /\ UNCHANGED valueEntityVars
  /\ UNCHANGED eventSourcedVars
  /\ UNCHANGED otherVars
SpecHandler == HandlerInit /\ [][HandlerNext]_vars

\* everything of the first seven specifications
coreVars ==
  <<crdtVars, convVars, hostVars, factoryVars, entityVars>>
IdleCore ==
  IdleCrdt /\ InitConv /\ InitHost /\ IdleFactory /\ IdleEntities

\* and what the specifications of single components leave alone with it
firstVars == <<coreVars, lastVars>>
IdleFirst == IdleCore /\ IdleLast

\* the mocked Value Entity under commands of user code
MockInit == IdleFirst /\ IdleOthers
MockNext ==
  /\ NextMock
  /\ UNCHANGED firstVars /\ UNCHANGED presenceVars
  /\ UNCHANGED failureVars /\ UNCHANGED discoveryVars
  /\ UNCHANGED serializerVars /\ UNCHANGED trackVars
SpecMock == MockInit /\ [][MockNext]_vars

\* the user presence entity under commands, deltas and cancellations
PresenceInit == IdleFirst /\ IdleOthers
PresenceNext ==
  /\ NextPresence
  /\ UNCHANGED firstVars /\ UNCHANGED mockVars
  /\ UNCHANGED failureVars /\ UNCHANGED discoveryVars
  /\ UNCHANGED serializerVars /\ UNCHANGED trackVars
SpecPresence == PresenceInit /\ [][PresenceNext]_vars

\* ContextFailure under constructions
FailureInit == IdleFirst /\ IdleOthers
FailureNext ==
  /\ NextFailure
  /\ UNCHANGED firstVars /\ UNCHANGED mockVars /\ UNCHANGED presenceVars
  /\ UNCHANGED discoveryVars /\ UNCHANGED serializerVars
  /\ UNCHANGED trackVars
SpecFailure == FailureInit /\ [][FailureNext]_vars

\* the discovery handler under registrations and Discover calls
DiscoveryInit == IdleFirst /\ IdleOthers
DiscoveryNext ==
  /\ NextDiscovery
  /\ UNCHANGED firstVars /\ UNCHANGED mockVars /\ UNCHANGED presenceVars
  /\ UNCHANGED failureVars /\ UNCHANGED serializerVars
  /\ UNCHANGED trackVars
SpecDiscovery == DiscoveryInit /\ [][DiscoveryNext]_vars

\* the effect serializer under calls
SerializerInit == IdleFirst /\ IdleOthers
SerializerNext ==
  /\ NextSerializer
  /\ UNCHANGED firstVars /\ UNCHANGED mockVars /\ UNCHANGED presenceVars
  /\ UNCHANGED failureVars /\ UNCHANGED discoveryVars
  /\ UNCHANGED trackVars
SpecSerializer == SerializerInit /\ [][SerializerNext]_vars

\* a collection followed by a replica, or given inbound deltas
TrackInit == IdleFirst /\ IdleLater /\ InitTrack
TrackNext ==
  /\ NextTrack
  /\ UNCHANGED firstVars /\ UNCHANGED laterVars
SpecTrack == TrackInit /\ [][TrackNext]_vars

\* the testkit under start, shutdown calls and the settling of stop(); the
\* reaction of a settled promise is a microtask, which the event loop runs
ShutdownInit ==
  IdleCore /\ IdleLater /\ IdleTrack /\ InitShutdown /\ IdleClients
ShutdownNext ==
  /\ NextShutdown
  /\ UNCHANGED coreVars /\ UNCHANGED laterVars /\ UNCHANGED trackVars
  /\ UNCHANGED clientVars
SpecShutdown ==
  /\ ShutdownInit
  /\ [][ShutdownNext]_vars
  /\ \A i \in 1..MaxShutdowns : WF_vars(Settled(i) /\ ShutdownNext)

\* the gRPC clients of one service under createClient and service calls
ClientsInit ==
  IdleCore /\ IdleLater /\ IdleTrack /\ InitShutdown /\ InitClients
ClientsNext ==
  /\ NextClients
  /\ UNCHANGED coreVars /\ UNCHANGED laterVars /\ UNCHANGED trackVars
  /\ UNCHANGED shutdownVars
SpecClients == ClientsInit /\ [][ClientsNext]_vars

\* ---- properties of one replicated collection -----------------------------
\* the last call was getAndResetDelta(initial)
FlushReturned(initial) ==
  op.name = "getAndResetDelta" /\ op.arg.initial = initial

\* the replica a new instance of the same kind becomes by applying the delta
\* the last call returned
Replica == applyDelta(New(crdt.kind), ret.delta).state

\* the keys of a list of entry deltas, in comparable form
EntryKeys(entries) ==
  {ToComparable(Deserialize(entries[i].key)) : i \in DOMAIN entries}

\* the elements or keys of a list of serialized values, in comparable form
ListedKeys(list) == {ToComparable(Deserialize(x)) : x \in Range(list)}

\* C1: when an object that so far saw only local mutator calls is flushed
\* with getAndResetDelta(true), a new instance of the same kind that applies
\* the returned delta is observationally equal to the object
C1_InitialDeltaRoundTrip ==
  (watch = "fresh" /\ FlushReturned(TRUE) /\ ~hist.used)
    => /\ ret.delta # Null
       /\ Observable(Replica) = Observable(crdt)

\* C2: a getAndResetDelta() whose flush window saw no local mutator call and
\* no inbound delta, and so the second of two consecutive flushes, returns
\* null
C2_SecondFlushIsNull ==
  (watch = "window" /\ FlushReturned(FALSE) /\ ~hist.local /\ ~hist.inbound)
    => ret.delta = Null

\* a second getAndResetDelta() directly after a flush of an object that
\* holds something returned null
C2_Witness ==
  /\ watch = "window"
  /\ FlushReturned(FALSE)
  /\ hist.consecutive
  /\ ret.delta = Null
  /\ Observable(crdt) # Observable(New(crdt.kind))

\* both replicas have flushed their local calls and applied every delta
Quiescent == dirty = {} /\ \A r \in Replicas : wire[r] = <<>>

\* C3: once the two replicas have exchanged all their deltas, both hold
\* every key that was incremented or decremented, with the sum of all the
\* increments made on either replica as its value
C3_CounterMapConvergence ==
  Quiescent =>
    \A k \in touched, r \in Replicas :
      /\ CounterMapHas(replica[r], k)
      /\ CounterMapGet(replica[r], k) = sum[k]

IsPrefix(s, t) == Len(s) <= Len(t) /\ SubSeq(t, 1, Len(s)) = s

\* C4: for every entity id the handler gets the commands in their arrival
\* order and the replies are emitted in the order the commands were handled
C4_PerEntityFifo ==
  \A e \in Entities :
    /\ IsPrefix(handled[e], arrived[e])
    /\ IsPrefix(replies[e], handled[e])

\* every command of one entity has been answered, in order, while the first
\* command of another entity is still in flight
C4_Witness ==
  \E e1, e2 \in Entities :
    /\ e1 # e2
    /\ handling[e1] # {} /\ replies[e1] = <<>>
    /\ Len(replies[e2]) = MaxCommands
    /\ replies[e2] = arrived[e2]

\* C5: at most one command of an entity id is in flight, and a command is
\* handed to the handler only when no earlier command of that entity id is
\* in flight
C5_SingleWriter ==
  [][\A e \in Entities :
       /\ Cardinality(handling'[e]) <= 1
       /\ handled'[e] # handled[e] => handling[e] = {}]_vars

\* a command waits in the queue of an entity whose deferred result is
\* pending, while a command of another entity is in flight too
C5_Witness ==
  \E e1, e2 \in Entities :
    /\ e1 # e2
    /\ handling[e1] # {} /\ queue[e1] # <<>>
    /\ handling[e2] # {}

\* C6: in any state, getAndResetDelta(true) returns a delta that is not null
\* and that makes a new instance of the same kind observationally equal to
\* the object
C6_InitialDeltaIsWholeState ==
  (watch = "fresh" /\ FlushReturned(TRUE))
    => /\ ret.delta # Null
       /\ Observable(Replica) = Observable(crdt)

C7_WitnessSetNull ==
  /\ watch = "cancel" /\ FlushReturned(FALSE) /\ scen.cancel # 0
  /\ crdt.kind = "replicatedSet"
  /\ ret.delta = Null

Redelivery(kinds) ==
  /\ watch = "repeat"
  /\ crdt.kind \in kinds
  /\ op.name = "applyDelta" /\ ret.error = ""
  /\ op'.name = "applyDelta" /\ op'.arg = op.arg

\* the value v with the nested delta of every entry for key k applied
RECURSIVE Reapplied(_, _, _)
Reapplied(v, k, entries) ==
  IF entries = <<>> THEN v
  ELSE Reapplied(
         IF ToComparable(Deserialize(Head(entries).key)) = k
         THEN ValueApplyDelta(v, Head(entries).delta).state ELSE v,
         k, Tail(entries))

\* C8 as stated: applying the same delta a second time to a set or a map
\* changes nothing, nested values of the map included
C8_ApplyDeltaIdempotent ==
  [][Redelivery({"replicatedSet", "replicatedMap"}) => crdt' = crdt]_vars

\* C8: applying the same delta a second time leaves the elements of a set
\* and the keys of a map as they were, changes no bookkeeping of local
\* changes, and reports no error; a nested value of the map is left as it
\* was unless the delta names its key in added or updated without removing
\* it, and such a value gets these nested deltas applied once more
C8_ApplyDeltaIdempotentMembership ==
  [][/\ Redelivery({"replicatedSet"}) => crdt' = crdt
     /\ Redelivery({"replicatedMap"}) =>
          /\ ret'.error = ""
          /\ DOMAIN crdt'.currentValue = DOMAIN crdt.currentValue
          /\ crdt'.added = crdt.added
          /\ crdt'.removed = crdt.removed
          /\ crdt'.cleared = crdt.cleared
          /\ \A k \in DOMAIN crdt.currentValue :
               crdt'.currentValue[k] =
                 IF op.arg.body.cleared
                    \/ k \in ListedKeys(op.arg.body.removed)
                 THEN crdt.currentValue[k]
                 ELSE Reapplied(crdt.currentValue[k], k,
                                op.arg.body.added \o op.arg.body.updated)]_vars

\* a map whose counter was created by a delta's added entry and has been
\* changed again by the second application of that delta
C8_Witness ==
  /\ watch = "repeat" /\ scen.repeat
  /\ crdt.kind = "replicatedMap"
  /\ op.arg.body.added # <<>>
  /\ \E k \in DOMAIN crdt.currentValue :
       /\ crdt.currentValue[k].kind = "counter"
       /\ crdt.currentValue[k].value = 2

\* a set that has applied the same delta with an added element twice
C8_WitnessSet ==
  /\ watch = "repeat" /\ scen.repeat
  /\ crdt.kind = "replicatedSet"
  /\ op.arg.body.added # <<>>

C9_WitnessFlushed ==
  /\ watch = "readd" /\ FlushReturned(FALSE)
  /\ scen.readd.stage = 3
  /\ ret.delta # Null

Overwrote == watch = "overwrite" /\ scen.overwrite.key # 0

C10_WitnessOldKey ==
  /\ Overwrote /\ FlushReturned(FALSE)
  /\ ~scen.overwrite.wasAdded
  /\ scen.overwrite.key \in ListedKeys(ret.delta.body.removed)
  /\ scen.overwrite.key \in EntryKeys(ret.delta.body.added)

\* the last call was a getAndResetDelta() that returned a delta of a map
\* whose flush window saw no inbound delta
FlushedLocalMap ==
  /\ watch = "prev" /\ FlushReturned(FALSE) /\ ~hist.inbound
  /\ ret.delta # Null

C11_WitnessNewKey ==
  /\ FlushedLocalMap
  /\ \E k \in EntryKeys(ret.delta.body.added) : k \notin hist.prevKeys
  /\ ret.delta.body.removed = <<>>

\* the last call deleted the only element of a set
DeletedLast ==
  watch = "last" /\ scen.last.before # Null /\ ~scen.last.flushed

C12_Witness ==
  DeletedLast /\ scen.last.before.added = scen.last.before.currentValue

AskedDefault == watch = "default" /\ scen.dflt.stage = 1
FlushedDefault == watch = "default" /\ scen.dflt.stage = 2

\* the entry of the callback's value is in the map and tracked as an addition
DefaultInserted ==
  /\ AskedDefault =>
       /\ scen.dflt.error = ""
       /\ scen.dflt.result = scen.dflt.value
       /\ MapHas(crdt, scen.dflt.key)
       /\ crdt.currentValue
            = With(scen.dflt.before.currentValue, scen.dflt.key,
                   scen.dflt.value)
       /\ \A d \in DefaultValues :
            MapGet(crdt, scen.dflt.key, d).result = scen.dflt.value
  /\ FlushedDefault =>
       /\ FlushReturned(FALSE)
       /\ ret.delta # Null
       /\ scen.dflt.key \in EntryKeys(ret.delta.body.added)

\* get returned undefined and changed nothing
DefaultUndefined ==
  /\ AskedDefault =>
       /\ scen.dflt.error = ""
       /\ scen.dflt.result = Null
       /\ crdt = scen.dflt.before
  /\ FlushedDefault =>
       ret.delta = getAndResetDelta(scen.dflt.before, FALSE).delta

C13_WitnessUndefined ==
  /\ AskedDefault /\ scen.dflt.value = Null
  /\ scen.dflt.key \in crdt.removed

IsEmptyInstance(c, kind) ==
  /\ c.kind = kind
  /\ c.kind \in CollectionKinds =>
       /\ KeysOf(c) = {}
       /\ getAndResetDelta(c, FALSE).delta = Null
  /\ c.kind = "counter" => c.value = 0 /\ c.delta = 0

\* the factory made an empty instance for a known tag, nothing for another
CreatedForTag ==
  created # Null =>
    IF envelope.kind \in KnownKinds
    THEN created.error = "" /\ IsEmptyInstance(created.state, envelope.kind)
    ELSE /\ created.error = "Unknown Replicated Data type"
         /\ created.state = Null /\ applied = Null

\* every delta nested in the envelope carries a known tag, and the deltas
\* added for one key are of one kind
NestedAccepted(d) ==
  d.kind = "replicatedMap" =>
    /\ \A i \in 1..Len(d.body.added) :
         d.body.added[i].delta.kind \in KnownKinds
    /\ \A i, j \in 1..Len(d.body.added) :
         d.body.added[i].key = d.body.added[j].key =>
           d.body.added[i].delta.kind = d.body.added[j].delta.kind

C15_WitnessUnknown ==
  created # Null /\ created.error # "" /\ envelope = Untagged

\* ---- properties of the mocked Value Entity ---------------------------------
\* C16: when a command fails after its handler called updateState or
\* deleteState, the state passed to the next command of the entity is the
\* state before the failed command.
C16_FailedCommandDiscardsState ==
  (lastCmd.handled /\ lastCmd.failed /\ lastCmd.changed) =>
    state = lastCmd.before

\* C18: a command reply carries at most one of message, forward and failure,
\* with or without side effects; none carries a message and a forward.
C18_ReplyCarriesAtMostOne ==
  lastCmd.handled =>
    /\ Len(reply.message) + Len(reply.forward) + Len(reply.failure) <= 1
    /\ ~(reply.message # <<>> /\ reply.forward # <<>>)

\* a forward, with a side effect, of a command that updated the state to a
\* value that would have made a message
C18_Witness ==
  /\ lastCmd.handled /\ lastCmd.changed
  /\ reply.forward # <<>> /\ reply.effects # <<>>
  /\ Truthy(state)

\* ---- properties of the mocked Event Sourced Entity -------------------------
\* C17: when a command fails after its handler called emit, none of its
\* events is applied to the state or added to the event log, and the number of
\* events handled so far is as before the command.
C17_FailedCommandDiscardsEmits ==
  (lastEmit.handled /\ lastEmit.failed /\ lastEmit.emitted) =>
    /\ esState = lastEmit.state
    /\ events = lastEmit.events
    /\ Len(events) = Len(lastEmit.events)

\* ---- properties of the Event Sourced handler -------------------------------
\* C19: the sequence number of an entity starts at the value of its init
\* frame, grows by exactly one for each replayed or emitted event, and no
\* init, event or command frame makes it decrease; the events of one command
\* get distinct, consecutive numbers.
C19_SequenceCountsEvents ==
  /\ phase # "Init" =>
       sequence = frames.init + frames.replayed + frames.emitted
  /\ frames.frame \in {"event", "command"} => sequence >= frames.before
  /\ frames.frame = "event" => sequence = frames.before + 1
  /\ frames.frame = "command" =>
       sequence = frames.before + Len(outbound.events)

\* a command has emitted two events on top of a replayed one, from an init
\* frame with a sequence number above zero
C19_Witness ==
  /\ frames.frame = "command" /\ Len(outbound.events) = 2
  /\ frames.replayed > 0 /\ frames.init > 0

\* C20: the reply to a command includes a snapshot exactly when the events of
\* the command take the sequence number to or past a multiple of
\* SnapshotEvery, and the snapshot is the state after all of them.
C20_SnapshotWhenThresholdCrossed ==
  frames.frame = "command" =>
    /\ outbound.snapshot # <<>>
         <=> (sequence \div SnapshotEvery) > (frames.before \div SnapshotEvery)
    /\ outbound.snapshot # <<>> => outbound.snapshot[1] = memory

\* the first of two events of a command reached the threshold: the snapshot
\* holds both
C20_Witness ==
  /\ frames.frame = "command" /\ outbound.snapshot # <<>>
  /\ sequence = SnapshotEvery + 1
  /\ frames.before = SnapshotEvery - 1
  /\ outbound.events = <<<<"a">>, <<"a">>>>

\* the last command of the mocked entity did not fail
MockSucceeded == mockCmd.handled /\ mockError = Undefined

\* the handler of the last command called the context's method
MockCalled(name) ==
  \E i \in 1..Len(mockCmd.calls) : mockCmd.calls[i].name = name

\* the state of the handler's last updateState call
LastUpdated ==
  LET at == {i \in 1..Len(mockCmd.calls) :
               mockCmd.calls[i].name = "updateState"}
  IN mockCmd.calls[CHOOSE i \in at : \A j \in at : j <= i].arg

\* C21: after a successful command that called deleteState the state is the
\* entity's initial state; after one that called only updateState(s) it is
\* s; after one that called neither it is the state before the command
C21_DeleteResetsUpdateReplaces ==
  MockSucceeded =>
    IF MockCalled("deleteState") THEN mockState = MockInitial
    ELSE IF MockCalled("updateState") THEN mockState = LastUpdated
    ELSE mockState = mockCmd.before

\* a successful command called updateState with the empty string only
C21_Witness ==
  /\ MockSucceeded
  /\ ~MockCalled("deleteState")
  /\ MockCalled("updateState")
  /\ LastUpdated = ""
  /\ mockCmd.before = "a"

\* the stream is open before and after the step
StaysOpen(s) == streams[s].open /\ streams'[s].open

\* C22: after every state change the onStateChange callback of an open
\* stream is invoked once, a message is written to the stream exactly when
\* the callback returned a value, and the monitor handler's message carries
\* an online status that differs from the last one sent on that stream
C22_StateChangeInvokesCallback ==
  [][\A s \in StreamIds :
       StaysOpen(s) =>
         IF changed'
         THEN /\ streams'[s].invoked = streams[s].invoked + 1
              /\ streams'[s].sent = streams[s].sent \o streams'[s].returned
              /\ \/ streams'[s].returned = <<>>
                 \/ /\ streams'[s].returned = <<AtLeastOne(vote')>>
                    /\ AtLeastOne(vote') # streams[s].sent[Len(streams[s].sent)]
         ELSE /\ streams'[s].invoked = streams[s].invoked
              /\ streams'[s].sent = streams[s].sent]_vars

\* a state change wrote the third message of one stream and the second of
\* a stream that was opened later
C22_Witness ==
  /\ changed
  /\ \E s, t \in StreamIds :
       /\ streams[s].open /\ Len(streams[s].sent) = 3
       /\ streams[s].returned # <<>>
       /\ streams[t].open /\ Len(streams[t].sent) = 2
       /\ streams[t].returned # <<>>

\* a state change invoked the callback of a stream and wrote nothing
C22_WitnessSilent ==
  /\ changed
  /\ \E s \in StreamIds :
       /\ streams[s].open /\ streams[s].invoked = 2
       /\ streams[s].returned = <<>>
       /\ Len(streams[s].sent) = 2

\* C23: constructing a ContextFailure succeeds exactly when the status code
\* is omitted or lies in 1..16; code 0 fails with 'must not be OK', a
\* negative code or one above 16 with 'Invalid gRPC status code'; on success
\* grpcStatus is the given code, absent when omitted
C23_StatusValidated ==
  failure # NoFailure =>
    LET given == failure.given IN
    /\ failure.thrown = "" <=> (given = <<>> \/ given[1] \in 1..16)
    /\ given = <<0>> =>
         failure.thrown = "gRPC failure status code must not be OK"
    /\ (given # <<>> /\ (given[1] < 0 \/ given[1] > 16)) =>
         failure.thrown = "Invalid gRPC status code: "
    /\ failure.thrown = "" =>
         /\ failure.name = "ContextFailure"
         /\ failure.grpcStatus = given

\* code 17 was refused after code 16 was taken
C23_Witness ==
  /\ previous.thrown = "" /\ previous.grpcStatus = <<16>>
  /\ failure.given = <<17>>
  /\ failure.thrown = "Invalid gRPC status code: "

\* the position of the return among the calls of the last Discover
ReturnAt ==
  CHOOSE i \in 1..Len(calls) : calls[i].call = "return"

\* C24: when a Discover has returned its response, preStart was invoked
\* before the return on every component registered at the call, with the
\* proxy hostname of the proxy info
C24_PreStartBeforeResponse ==
  discovered # <<>> =>
    /\ \E i \in 1..Len(calls) : calls[i].call = "return"
    /\ \A c \in 1..Len(asked.components) :
         \E i \in 1..(ReturnAt - 1) :
           /\ calls[i].call = "preStart"
           /\ calls[i].component = c
           /\ calls[i].proxyHostname = asked.proxyInfo.proxyHostname

\* a Discover of the proxy at "proxy" returned with two components registered
C24_Witness ==
  /\ discovered # <<>>
  /\ Len(asked.components) = 2
  /\ asked.proxyInfo.proxyHostname = "proxy"

\* the entries of the last response
Entries == discovered[1].components

\* C25: the response lists one entry per component added before the call, in
\* registration order, each with the component's serviceName and
\* componentType; an entity's entry carries its entityType and forward
\* headers, and its passivationStrategy is absent when none was configured
\* and carries the configured timeout otherwise
C25_ResponseMirrorsRegistry ==
  discovered # <<>> =>
    /\ Len(Entries) = Len(asked.components)
    /\ \A i \in 1..Len(Entries) :
         LET c == asked.components[i]
             e == Entries[i]
         IN /\ e.serviceName = c.serviceName
            /\ e.componentType = c.componentType
            /\ c.componentType = EntityType =>
                 /\ Len(e.entity) = 1
                 /\ e.entity[1].entityType = c.entityType
                 /\ e.entity[1].forwardHeaders = c.forwardHeaders
                 /\ c.entityPassivationStrategy = <<>> =>
                      e.entity[1].passivationStrategy = <<>>
                 /\ c.entityPassivationStrategy # <<>> =>
                      e.entity[1].passivationStrategy
                        = c.entityPassivationStrategy

\* the response lists an action after an entity without passivation, and a
\* component was added after the call
C25_Witness ==
  /\ discovered # <<>>
  /\ Len(Entries) = 2
  /\ Entries[1].componentType = EntityType
  /\ Entries[1].entity[1].passivationStrategy = <<>>
  /\ Entries[1].entity[1].forwardHeaders = {"x-my-header"}
  /\ Entries[2].componentType = ActionType
  /\ Len(components) = 3

\* the method of the last serializeEffect
Serialized == serialized.method[1]

\* C26: serializeEffect fails, producing no effect, whenever the method's
\* service is not registered with the serializer, also for a generated gRPC
\* stub; for a method of a registered service it returns the service's
\* name, the command name and a payload tagged with the type URL of the
\* method's input type
C26_SerializerValidatesService ==
  serialized.method # <<>> =>
    /\ Serialized.service \notin registered =>
         /\ serialized.thrown # ""
         /\ serialized.effect = <<>>
    /\ (/\ Serialized.service \in registered
        /\ Serialized.name \in DOMAIN MethodsOf(Serialized.service)) =>
         /\ serialized.thrown = ""
         /\ Len(serialized.effect) = 1
         /\ serialized.effect[1].serviceName = Serialized.service
         /\ serialized.effect[1].commandName = Serialized.name
         /\ serialized.effect[1].payload.type_url
              = <<"type.googleapis.com", "com.example.In">>

\* a stub of the other service was refused after an effect was collected
C26_Witness ==
  /\ registered = {"com.example.ExampleService"}
  /\ Len(collected) = 1
  /\ serialized.method # <<>>
  /\ Serialized.form = "path"
  /\ Serialized.service = "com.example.ExampleServiceTwo"
  /\ Serialized.name = "DoSomethingOne"
  /\ serialized.thrown # ""

\* ---- properties of a collection followed by a replica ----------------------
\* A of the kind was flushed and B given the delta
Mirrored(kind) ==
  pattern = "mirror" /\ origin.kind = kind /\ track.step = "flush"

\* C27: after any local add, addAll, delete and clear calls on a
\* ReplicatedSet A whose last flush B followed, B holds A's elements once it
\* is given A.getAndResetDelta(), and holds them already if that is null
C27_SetReplicaFollows ==
  Mirrored("replicatedSet") => SetElements(mirror) = SetElements(origin)

\* B was given a delta that clears it and adds an element
C27_Witness ==
  /\ Mirrored("replicatedSet")
  /\ track.local
  /\ track.delta # Null
  /\ track.delta.body.cleared
  /\ Len(track.delta.body.added) = 1
  /\ SetSize(mirror) = 1

\* C28: after any local calls on a ReplicatedMap A whose last flush B
\* followed (set with a new or a used value, get with a default value,
\* delete, clear, mutation of nested values), B has A's keys and an equal
\* value at every key once it is given A.getAndResetDelta(), and has them
\* already if that is null
C28_MapReplicaFollows ==
  Mirrored("replicatedMap") => Observable(mirror) = Observable(origin)

\* C29: after any local increment, decrement, delete and clear calls on a
\* ReplicatedCounterMap A whose last flush B followed, increments by zero
\* and increments that cancel out among them, B reports A's keys and A's
\* value for every key once it is given A.getAndResetDelta() (if not null)
C29_CounterMapReplicaFollows ==
  Mirrored("replicatedCounterMap") =>
    Observable(mirror) = Observable(origin)

\* ---- properties of a collection that is given inbound deltas ---------------
\* A was flushed after local calls and then inbound deltas
FlushedAfterInbound ==
  pattern = "inbound" /\ track.step = "flush" /\ track.local /\ track.inbound

\* C30: an inbound delta applied between a local mutation and the next
\* flush does not change what the flush reports: getAndResetDelta returns
\* what it returns without the inbound delta
C30_LocalChangesSurviveInbound ==
  FlushedAfterInbound => track.delta = track.twinDelta

\* ---- properties of inbound deltas -------------------------------------------
\* the last call was a getAndResetDelta() whose flush window began with a
\* getAndResetDelta and saw inbound deltas and no local mutator call
FlushedInboundOnly ==
  /\ watch = "window"
  /\ FlushReturned(FALSE)
  /\ hist.opened
  /\ hist.inbound
  /\ ~hist.local

\* C31: inbound deltas are never echoed: once getAndResetDelta() has been
\* called, a getAndResetDelta() that follows only applyDelta calls, with no
\* local mutator call between, returns null
C31_InboundNeverEchoed ==
  FlushedInboundOnly => ret.delta = Null

\* ---- properties of the pending delta of a ReplicatedSet ---------------------
\* a ReplicatedSet that saw only local calls and flushes
LocalSet == pattern = "mirror" /\ origin.kind = "replicatedSet"

\* C32: after any local add, addAll, delete, clear and getAndResetDelta calls
\* on a ReplicatedSet no element is both pending added and pending removed,
\* every pending added element is in the set, no pending removed element is
\* in the set, and a pending delta marked cleared has no removed elements
C32_SetPendingDelta ==
  LocalSet =>
    /\ origin.added \cap origin.removed = {}
    /\ origin.added \subseteq origin.currentValue
    /\ origin.removed \cap origin.currentValue = {}
    /\ origin.cleared => origin.removed = {}

\* a set with a pending added and a pending removed element, after the
\* delete of an element that was flushed before
C32_Witness ==
  /\ LocalSet
  /\ track.step = "local"
  /\ track.call.name = "delete"
  /\ origin.added # {}
  /\ origin.removed # {}

\* a set cleared since its last flush to which an element was added after
C32_WitnessCleared ==
  /\ LocalSet
  /\ track.step = "local"
  /\ track.call.name \in {"add", "addAll"}
  /\ origin.cleared
  /\ origin.added # {}

\* ---- properties of the keys of a ReplicatedMultiMap --------------------------
\* C33: a ReplicatedMultiMap has no empty keys: after any put, putAll,
\* delete, deleteAll, clear and applyDelta calls every key for which has(key)
\* is true has at least one value, so keysSize counts no key without values
C33_MultiMapNoEmptyKeys ==
  origin.kind = "replicatedMultiMap" =>
    /\ \A k \in Keys :
         MultiMapHas(origin, k) => MultiMapGet(origin, k) # {}
    /\ MultiMapKeysSize(origin)
         = Cardinality({k \in Keys : MultiMapGet(origin, k) # {}})

\* ---- properties of a failing applyDelta --------------------------------------
\* the step is an applyDelta on a collection of the kind that fails
ApplyDeltaFails(kind) ==
  /\ crdt.kind = kind
  /\ op'.name = "applyDelta"
  /\ ret'.error # ""

\* C34: ReplicatedMap.applyDelta is all-or-nothing: when it fails with an
\* error, for a delta of another kind or for an added or updated entry whose
\* nested delta has an unknown or mismatching kind, the map's keys and nested
\* values are the same as before the call
C34_MapApplyDeltaAllOrNothing ==
  [][ApplyDeltaFails("replicatedMap")
       => crdt'.currentValue = crdt.currentValue]_vars

\* the error of applyDelta for a delta envelope of another kind
CannotApply(kind) ==
  IF kind = "replicatedSet" THEN "Cannot apply delta to ReplicatedSet"
  ELSE IF kind = "replicatedMap" THEN "Cannot apply delta to ReplicatedMap"
  ELSE IF kind = "replicatedCounterMap"
       THEN "Cannot apply delta to ReplicatedCounterMap"
  ELSE "Cannot apply delta to ReplicatedMultiMap"

\* C35: applyDelta on a ReplicatedSet, ReplicatedMap, ReplicatedCounterMap
\* or ReplicatedMultiMap with a delta envelope of a different kind fails
\* with a 'Cannot apply delta' error and leaves the contents and the pending
\* delta unchanged
C35_DeltaKindGuard ==
  [][\A d \in OtherKindDeltas(crdt.kind) :
       CallApplyDelta(d)
         => /\ ret'.error = CannotApply(crdt.kind)
            /\ crdt' = crdt]_vars

\* a collection that holds something and has a pending delta was given a
\* delta of another kind
C35_Witness ==
  /\ op.name = "applyDelta"
  /\ ret.error = CannotApply(crdt.kind)
  /\ Observable(crdt) # Observable(New(crdt.kind))
  /\ getAndResetDelta(crdt, FALSE).delta # Null

\* ---- properties of the event log of the mocked Event Sourced Entity ---------
\* the state the event handlers make of the log, starting from
\* initial(entityId)
FoldedLog(log) ==
  HandleEvents([state |-> <<>>, events |-> <<>>], log).state

\* C36: after every handleCommand on a MockEventSourcedEntity the events the
\* command emitted have been appended to the event log once each and in
\* emission order, and the current state is what folding the event handlers
\* over the event log from initial(entityId) gives
C36_StateIsFoldOfLog ==
  [][\A request \in EmitRequests :
       EventSourcedHandleCommand(request)
         => /\ events' = events \o EsProcess(request, esState).events
            /\ esState' = FoldedLog(events')]_vars

\* ---- properties of updateState and deleteState in one command ---------------
\* the handler's last call of updateState or deleteState
LastStateCall ==
  LET at == {i \in 1..Len(mockCmd.calls) :
               mockCmd.calls[i].name \in {"updateState", "deleteState"}}
  IN mockCmd.calls[CHOOSE i \in at : \A j \in at : j <= i]

\* C37: when the handler of a command called both updateState and
\* deleteState, the state after the command is that of the call made last:
\* the updated state if updateState was last, the initial state if
\* deleteState was last
C37_LastStateOperationWins ==
  (MockSucceeded /\ MockCalled("updateState") /\ MockCalled("deleteState"))
    => IF LastStateCall.name = "updateState"
       THEN mockState = LastStateCall.arg
       ELSE mockState = MockInitial

\* ---- properties of the testkit's shutdown ------------------------------------
\* what holds of one call of shutdown at every moment
ShutdownInOrder(s) ==
  /\ s.tryShutdown <= 1
  /\ s.tryShutdown = 1 => s.proxyContainerStopped # "pending"
  /\ ~s.container => s.proxyContainerStopped = "fulfilled"
  /\ s.reacted => s.tryShutdown = 1
  /\ (s.callback = "invoked" /\ s.proxyContainerStopped = "rejected")
       => s.arg = StopError

\* the stop() of the i-th shutdown has settled / its tryShutdown was invoked
StopHasSettled(i) ==
  i \in DOMAIN shutdowns /\ shutdowns[i].proxyContainerStopped # "pending"
TriedShutdown(i) ==
  i \in DOMAIN shutdowns /\ shutdowns[i].tryShutdown = 1

\* C38: in IntegrationTestkit.shutdown the server's tryShutdown is invoked
\* exactly once and only after the proxy container's stop has settled
\* (without waiting when no container was started); it is invoked whether
\* stop succeeded or failed, and when stop failed the shutdown callback
\* receives that error
C38_ShutdownOrder ==
  /\ [](\A i \in DOMAIN shutdowns : ShutdownInOrder(shutdowns[i]))
  /\ \A i \in 1..MaxShutdowns : StopHasSettled(i) ~> TriedShutdown(i)

\* a shutdown whose stop() failed while command loops were in flight has
\* passed the error to its callback
C38_Witness ==
  \E i \in DOMAIN shutdowns :
    /\ shutdowns[i].container
    /\ shutdowns[i].proxyContainerStopped = "rejected"
    /\ shutdowns[i].tryShutdown = 1
    /\ shutdowns[i].callback = "invoked"
    /\ shutdowns[i].arg = StopError
    /\ testkit.server = "closed"

\* a shutdown of a testkit that started no container has invoked its
\* callback
C38_WitnessNoContainer ==
  \E i \in DOMAIN shutdowns :
    /\ ~shutdowns[i].container
    /\ shutdowns[i].tryShutdown = 1
    /\ shutdowns[i].callback = "invoked"

\* ---- properties of the identification headers --------------------------------
\* the address contains the character
Contains(address, c) == \E i \in 1..Len(address) : address[i] = c

\* no address given, or an address without '.' that starts with the proxy
\* hostname
TargetsSelf(address) ==
  \/ address = <<>>
  \/ ~Contains(address, ".") /\ StartsWith(address, ProxyHostname)

\* an address without '.' that is not the service itself
TargetsKalixService(address) ==
  ~TargetsSelf(address) /\ ~Contains(address, ".")

\* the headers the client adds to its requests
AddedBy(c) == IF c.headers = <<>> THEN {} ELSE c.headers[1]

\* C39: a client created by clientCreators gets the self-identification
\* header only when it targets the service itself, gets the
\* service-identification header only when it targets another Kalix service
\* (to whose address ':80' is appended when it has no port), and the requests
\* of a client for an external address, one that contains '.', never carry
\* either identification header
C39_HeadersFollowTarget ==
  /\ SelfHeader \in AddedBy(client) => TargetsSelf(client.given)
  /\ ServiceHeader \in AddedBy(client)
       => /\ TargetsKalixService(client.given)
          /\ client.address =
               IF Contains(client.given, ":") THEN client.given
               ELSE client.given \o <<":", "8", "0">>
  /\ Contains(client.given, ".") => AddedBy(client) = {}
  /\ (outgoing.made /\ Contains(outgoing.given, "."))
       => outgoing.sent \cap {SelfHeader, ServiceHeader} = {}

====
